---- MODULE Spec2Model ----
(***************************************************************************)
(* CI/CD engine: the priority job queue (JobQueue), the step pipeline      *)
(* (Orchestrator.executeJob) and the scheduler that connects them.         *)
(*                                                                         *)
(* Strings that the code formats and parses again (the queue keys) are     *)
(* sequences of character codes, so that formatting, splitting and         *)
(* parseInt are computed and not assumed.                                  *)
(***************************************************************************)
EXTENDS Integers, Sequences, FiniteSets, TLC

(* ------------------------------ bounds -------------------------------- *)
MaxJobs == 2          \* job ids 1..MaxJobs ("a", "b", "c", ...)
MaxTime == 2          \* Date.now() ranges over 1..MaxTime
MaxConcurrentCfg == 2 \* QueueConfig.maxConcurrent ranges over 1..MaxConcurrentCfg
MaxRetryCalls == 1    \* successful retryJob calls explored per behaviour
MaxExecSteps == 3     \* longest step list explored by the pipeline specification
MaxEnqueues == 3      \* enqueue calls explored where a job is submitted again
MaxBundles == 2       \* cache bundles the bucket holds at most
MaxStepSeconds == 3   \* seconds the clock is stepped through while a step runs

(* -------------------------- program constants ------------------------- *)
defaultPriority == 5
\* QueueConfig.maxRetries of the default configuration
maxRetries == 3

\* JobConfig.priority is optional; NoPriority stands for an absent field.
NoPriority == -1
Priorities == {NoPriority, 5, 10}

\* an absent optional number (startedAt, finishedAt, duration, currentStep)
Undef == -1

(* ------------------------------ strings ------------------------------- *)
Colon == 58
Digit0 == 48

RECURSIVE DecStr(_)
\* `${n}` for a non-negative integer n
DecStr(n) == IF n < 10 THEN <<Digit0 + n>> ELSE DecStr(n \div 10) \o <<Digit0 + (n % 10)>>

RECURSIVE Split(_)
\* name.split(':')
Split(s) ==
    IF \A k \in 1..Len(s) : s[k] # Colon
    THEN <<s>>
    ELSE LET k == CHOOSE x \in 1..Len(s) : s[x] = Colon /\ \A y \in 1..(x - 1) : s[y] # Colon
         IN  <<SubSeq(s, 1, k - 1)>> \o Split(SubSeq(s, k + 1, Len(s)))

RECURSIVE ParseDigits(_, _)
ParseDigits(s, acc) ==
    IF s = <<>> \/ Head(s) < Digit0 \/ Head(s) > Digit0 + 9
    THEN acc
    ELSE ParseDigits(Tail(s), 10 * acc + (Head(s) - Digit0))

\* parseInt(s) on a string that starts with a digit
parseInt(s) == ParseDigits(s, 0)

\* s.endsWith(suffix)
EndsWith(s, suffix) ==
    /\ Len(suffix) <= Len(s)
    /\ SubSeq(s, Len(s) - Len(suffix) + 1, Len(s)) = suffix

\* byte-wise lexicographic order of two strings
RECURSIVE LexLess(_, _)
LexLess(s, t) ==
    IF t = <<>> THEN FALSE
    ELSE IF s = <<>> THEN TRUE
    ELSE IF Head(s) # Head(t) THEN Head(s) < Head(t)
    ELSE LexLess(Tail(s), Tail(t))

(* ------------------------------- state -------------------------------- *)
VARIABLES
    maxConcurrent,  \* QueueConfig.maxConcurrent of the deployed queue
    jobs,           \* the JobConfig submitted under each job id
    now,            \* Date.now()
    kvQueue,        \* KV entries under "queue:": [name, job, seq]
    kvStatus,       \* KV entries under "status:": job id -> JobStatus
    kvJob,          \* KV entries under "job:": ids with a retained config
    exec,           \* the executeJob call in flight for each job id
    enqCount,       \* number of enqueue calls so far (orders the entries)
    retryCount,     \* number of successful retryJob calls so far
    ret             \* the last JobQueue call that returned, and its return value

VARIABLES
    files,          \* the manifest (lockfile) files of the sandbox: path -> file
    dirs,           \* the cache directories that exist in the sandbox
    r2,             \* the R2 bucket: the objects under "cache/"
    kvCache,        \* KV entries under "cache:": the CacheKey metadata
    keyCalls,       \* the last generateCacheKey calls, with what they read
    cret            \* the last saveCache / restoreCache call and its result

cacheVars == <<files, dirs, r2, kvCache, keyCalls, cret>>

VARIABLE
    stepRun         \* one executeStep call: its race and the StepResult it builds

VARIABLE
    deq             \* the dequeue() calls of concurrent requests, await by await

VARIABLE
    commands        \* the step commands executing in the sandboxes: <<job id, step index>>

VARIABLE
    stream          \* the ReadableStream of one streamJobLogs call and its poll timer

vars == <<maxConcurrent, jobs, now, kvQueue, kvStatus, kvJob, exec, enqCount, retryCount, ret,
          cacheVars, stepRun, deq, commands, stream>>

\* the job ids of the workload
Ids == DOMAIN jobs

\* job.id, any string: the id the workload gives job j, or "a", "b", "c", ...
\* where it gives none
IdStr(j) == IF "id" \in DOMAIN jobs[j] THEN jobs[j].id ELSE <<96 + j>>

\* the part of the key after the "queue:" prefix: `${priority}:${Date.now()}:${job.id}`
QueueKey(priority, timestamp, j) ==
    DecStr(priority) \o <<Colon>> \o DecStr(timestamp) \o <<Colon>> \o IdStr(j)

(* ------------------------------ records ------------------------------- *)
NoError == [kind |-> "none", arg |-> 0]
\* `Step "${step.name}" failed`, the step named by its index
StepFailedError(i) == [kind |-> "step", arg |-> i]
\* error.message of a caught exception; ExcCode numbers the messages
ExcCode(what) ==
    CASE what = "setup" -> 1
      [] what = "persist" -> 2
      [] what = "snapshot" -> 3
      [] what = "restore" -> 4
      [] what = "save" -> 5
      [] what = "step" -> 6
      [] OTHER -> 0
ExceptionError(what) == [kind |-> "exception", arg |-> ExcCode(what)]

\* kv.get returned null
AbsentStatus ==
    [status |-> "absent", currentStep |-> Undef, startedAt |-> Undef,
     finishedAt |-> Undef, duration |-> Undef, steps |-> <<>>, error |-> NoError]

PendingStep == [status |-> "pending", exitCode |-> Undef, output |-> "none"]

\* the JobStatus that enqueue writes
InitialStatus(job) ==
    [status |-> "queued", currentStep |-> Undef, startedAt |-> Undef,
     finishedAt |-> Undef, duration |-> Undef,
     steps |-> [k \in 1..Len(job.steps) |-> PendingStep], error |-> NoError]

TerminalStatuses == {"success", "failure", "timeout", "cancelled"}

\* JavaScript truthiness of an optional number
Truthy(n) == n # Undef /\ n # 0

\* no streamJobLogs call was made; a stream holds the job it follows, the
\* lastStep of its callback and the 0-based indices of the steps whose output
\* it has enqueued
NoStream ==
    [state |-> "none", job |-> 0, lastStep |-> -1, emitted |-> <<>>, early |-> FALSE]

IdleProc ==
    [pc |-> "idle", status |-> AbsentStatus, i |-> 0, setup |-> "none", cache |-> "none",
     save |-> "none", thrown |-> "none", log |-> <<>>]

\* a call of the queue and the value it returned
Ret(op, val) == [op |-> op, val |-> val, id |-> 0]

\* a call of the queue for the job id j and the value it returned
RetFor(op, val, j) == [op |-> op, val |-> val, id |-> j]

\* the executeJob call that processJob makes for a dispatched job
StartProc == [IdleProc EXCEPT !.pc = "start"]

(* ------------------------------ JobQueue ------------------------------ *)
\* job.priority ?? this.config.defaultPriority
PriorityOf(job) == IF job.priority = NoPriority THEN defaultPriority ELSE job.priority

\* kv.put(name, ...): a later put under the same name replaces the entry
KvPut(entries, e) == {x \in entries : x.name # e.name} \cup {e}

RECURSIVE ListKeys(_)
\* kv.list({ prefix: 'queue:' }): the keys in the byte order of their names
ListKeys(entries) ==
    IF entries = {} THEN <<>>
    ELSE LET first == CHOOSE e \in entries : \A x \in entries \ {e} : LexLess(e.name, x.name)
         IN  <<first>> \o ListKeys(entries \ {first})

\* CompareKeys sorting the priorities ascending
CompareKeysAscending(a, b) ==
    LET priDiff == parseInt(Split(a.name)[1]) - parseInt(Split(b.name)[1])
    IN  IF priDiff # 0 THEN priDiff
        ELSE parseInt(Split(a.name)[2]) - parseInt(Split(b.name)[2])

\* the comparator handed to sort: < 0 when a comes first
CompareKeys(a, b) ==
    LET priorityA == Split(a.name)[1]
        timestampA == Split(a.name)[2]
        priorityB == Split(b.name)[1]
        timestampB == Split(b.name)[2]
        priDiff == parseInt(priorityB) - parseInt(priorityA)
    IN  IF priDiff # 0 THEN priDiff ELSE parseInt(timestampA) - parseInt(timestampB)

RECURSIVE InsertKey(_, _)
\* x placed behind every element that does not compare greater than it
InsertKey(sorted, x) ==
    IF sorted = <<>> THEN <<x>>
    ELSE IF CompareKeys(x, Head(sorted)) < 0 THEN <<x>> \o sorted
    ELSE <<Head(sorted)>> \o InsertKey(Tail(sorted), x)

RECURSIVE SortKeys(_)
\* Array.prototype.sort with the comparator: a stable sort
SortKeys(keys) ==
    IF keys = <<>> THEN <<>>
    ELSE InsertKey(SortKeys(SubSeq(keys, 1, Len(keys) - 1)), keys[Len(keys)])

\* getRunningJobCount()
getRunningJobCount == Cardinality({j \in Ids : kvStatus[j].status = "running"})

\* AtCapacity admitting one job more
AtCapacityOffByOne(running) == running > maxConcurrent

\* the admission test of dequeue
AtCapacity(running) == running >= maxConcurrent

\* the writes of enqueue(job) for the job with id j
EnqueueWrites(j) ==
    LET job == jobs[j]
        priority == PriorityOf(job)
        queueKey == QueueKey(priority, now, j)
    IN  /\ kvQueue' = KvPut(kvQueue, [name |-> queueKey, job |-> j, seq |-> enqCount + 1])
        /\ kvStatus' = [kvStatus EXCEPT ![j] = InitialStatus(job)]
        /\ enqCount' = enqCount + 1

\* enqueue(job) called directly, the config not retained
Enqueue(j) ==
    /\ kvStatus[j].status = "absent"
    /\ EnqueueWrites(j)
    /\ ret' = Ret("enqueue", "void")
    /\ UNCHANGED <<stepRun, deq, commands, stream, maxConcurrent, jobs, now, kvJob, exec, retryCount, cacheVars>>

\* handleSubmitJob: storeJobConfig(job), then enqueue(job)
SubmitJob(j) ==
    /\ kvStatus[j].status = "absent"
    /\ kvJob' = kvJob \cup {j}
    /\ EnqueueWrites(j)
    /\ ret' = Ret("submit", "void")
    /\ UNCHANGED <<stepRun, deq, commands, stream, maxConcurrent, jobs, now, exec, retryCount, cacheVars>>

\* handleSubmitJob for a job id that was submitted before: storeJobConfig(job),
\* then enqueue(job), which overwrites the JobStatus
SubmitAgain(j) ==
    /\ kvStatus[j].status # "absent"
    /\ enqCount < MaxEnqueues
    /\ kvJob' = kvJob \cup {j}
    /\ EnqueueWrites(j)
    /\ ret' = Ret("submit", "void")
    /\ UNCHANGED <<stepRun, deq, commands, stream, maxConcurrent, jobs, now, exec, retryCount, cacheVars>>

\* which of the required JobConfig fields a request body holds
FieldFlags == [id : BOOLEAN, repo : BOOLEAN, commit : BOOLEAN, steps : BOOLEAN]

\* !job.id || !job.repo || !job.commit || !job.steps
Invalid(job) == ~job.has.id \/ ~job.has.repo \/ ~job.has.commit \/ ~job.has.steps

\* `${job.id}`: the text "undefined" for a job without id
IdText(j) ==
    IF jobs[j].has.id THEN IdStr(j)
    ELSE <<117, 110, 100, 101, 102, 105, 110, 101, 100>>

\* enqueue(job) for a job object that may lack fields: the queue entry is
\* put first; job.steps.map throws a TypeError when there are no steps
EnqueueAny(j) ==
    LET job == jobs[j]
        priority == PriorityOf(job)
        queueKey == DecStr(priority) \o <<Colon>> \o DecStr(now) \o <<Colon>> \o IdText(j)
    IN  /\ enqCount < MaxEnqueues
        /\ kvQueue' = KvPut(kvQueue, [name |-> queueKey, job |-> j, seq |-> enqCount + 1])
        /\ enqCount' = enqCount + 1
        /\ IF job.has.steps
           THEN /\ kvStatus' = [kvStatus EXCEPT ![j] = InitialStatus(job)]
                /\ ret' = RetFor("enqueue", "void", j)
           ELSE /\ kvStatus' = kvStatus
                /\ ret' = RetFor("enqueue", "TypeError", j)
        /\ UNCHANGED <<stepRun, deq, commands, stream, maxConcurrent, jobs, now, kvJob, exec, retryCount, cacheVars>>

\* handleSubmitJob for a request body that may lack fields: 400 before
\* anything is stored, or storeJobConfig and enqueue
HandleSubmitJob(j) ==
    IF Invalid(jobs[j])
    THEN /\ ret' = RetFor("submit", "400", j)
         /\ UNCHANGED <<stepRun, deq, commands, stream, maxConcurrent, jobs, now, kvQueue, kvStatus, kvJob, exec, enqCount, retryCount, cacheVars>>
    ELSE /\ kvStatus[j].status = "absent"
         /\ kvJob' = kvJob \cup {j}
         /\ EnqueueWrites(j)
         /\ ret' = RetFor("submit", "202", j)
         /\ UNCHANGED <<stepRun, deq, commands, stream, maxConcurrent, jobs, now, exec, retryCount, cacheVars>>

\* handleSubmitJob for a new job that takes the id and the config of a job
\* that has run to its end: ids are reused so that jobs can arrive forever,
\* and the enqueue counter is not advanced
SubmitNext(j) ==
    /\ exec[j].pc = "done"
    /\ kvStatus[j].status \in TerminalStatuses
    /\ kvJob' = kvJob \cup {j}
    /\ kvQueue' = KvPut(kvQueue, [name |-> QueueKey(PriorityOf(jobs[j]), now, j),
                                  job |-> j, seq |-> enqCount])
    /\ kvStatus' = [kvStatus EXCEPT ![j] = InitialStatus(jobs[j])]
    /\ exec' = [exec EXCEPT ![j] = IdleProc]
    /\ ret' = Ret("submit", "void")
    /\ UNCHANGED <<stepRun, deq, commands, stream, maxConcurrent, jobs, now, enqCount, retryCount, cacheVars>>

\* status.status = 'running'; status.startedAt = Date.now()
MarkRunning(status) == [status EXCEPT !.status = "running", !.startedAt = now]

\* dequeue(), and the scheduler handing the returned job to processJob
Dequeue ==
    LET running == getRunningJobCount IN
    IF AtCapacity(running) \/ kvQueue = {}
    THEN /\ ret' = Ret("dequeue", "null")
         /\ UNCHANGED <<stepRun, deq, commands, stream, maxConcurrent, jobs, now, kvQueue, kvStatus, kvJob, exec, enqCount, retryCount, cacheVars>>
    ELSE LET sortedKeys == SortKeys(ListKeys(kvQueue))
             first == sortedKeys[1]
             j == first.job
             status == kvStatus[j]
         IN  /\ kvQueue' = kvQueue \ {first}
             /\ kvStatus' = IF status.status # "absent"
                            THEN [kvStatus EXCEPT ![j] = MarkRunning(status)]
                            ELSE kvStatus
             /\ exec' = [exec EXCEPT ![j] = StartProc]
             /\ ret' = Ret("dequeue", "job")
             /\ UNCHANGED <<stepRun, deq, commands, stream, maxConcurrent, jobs, now, kvJob, enqCount, retryCount, cacheVars>>

\* scheduled: the next dequeue() is called after the processJob of the
\* previous one has returned
DequeueAfterReturn ==
    /\ \A j \in Ids : exec[j].pc \in {"idle", "done", "threw"}
    /\ Dequeue

\* Cancelled that stamps nothing
CancelledNoStamp(status) == [status EXCEPT !.status = "cancelled"]

\* the status update of cancelJob
Cancelled(status) ==
    LET finishedAt == now IN
    [status EXCEPT !.status = "cancelled", !.finishedAt = finishedAt,
                   !.duration = IF Truthy(status.startedAt)
                                THEN finishedAt - status.startedAt ELSE @]

\* cancelJob(jobId)
CancelJob(j) ==
    LET status == kvStatus[j] IN
    IF status.status = "absent"
    THEN /\ ret' = RetFor("cancelJob", "false", j)
         /\ UNCHANGED <<stepRun, deq, commands, stream, maxConcurrent, jobs, now, kvQueue, kvStatus, kvJob, exec, enqCount, retryCount, cacheVars>>
    ELSE LET listed == ListKeys(kvQueue)
             hits == {k \in 1..Len(listed) : EndsWith(listed[k].name, <<Colon>> \o IdStr(j))}
             removed == IF status.status = "queued" /\ hits # {}
                        THEN {listed[CHOOSE k \in hits : \A m \in hits : k <= m]}
                        ELSE {}
         IN  /\ kvQueue' = kvQueue \ removed
             /\ kvStatus' = [kvStatus EXCEPT ![j] = Cancelled(status)]
             /\ ret' = RetFor("cancelJob", "true", j)
             /\ UNCHANGED <<stepRun, deq, commands, stream, maxConcurrent, jobs, now, kvJob, exec, enqCount, retryCount, cacheVars>>

\* the KV store drops the entry job:<id> once its expirationTtl has passed
ExpireJobConfig(j) ==
    /\ j \in kvJob
    /\ kvJob' = kvJob \ {j}
    /\ UNCHANGED <<stepRun, deq, commands, stream, maxConcurrent, jobs, now, kvQueue, kvStatus, exec, enqCount,
                   retryCount, ret, cacheVars>>

\* RetryRefused that does not look for the stored config
RetryRefusedUnlessFailed(status, jobData) == status.status # "failure"

\* the two early returns of retryJob: no failure status, or no stored config
RetryRefused(status, jobData) == status.status # "failure" \/ ~jobData

\* retryJob(jobId), while fewer than limit calls have enqueued a job
RetryJobWithin(j, limit) ==
    IF RetryRefused(kvStatus[j], j \in kvJob)
    THEN /\ ret' = RetFor("retryJob", "false", j)
         /\ UNCHANGED <<stepRun, deq, commands, stream, maxConcurrent, jobs, now, kvQueue, kvStatus, kvJob, exec, enqCount, retryCount, cacheVars>>
    ELSE /\ retryCount < limit
         /\ EnqueueWrites(j)
         /\ retryCount' = retryCount + 1
         /\ ret' = RetFor("retryJob", "true", j)
         /\ UNCHANGED <<stepRun, deq, commands, stream, maxConcurrent, jobs, now, kvJob, exec, cacheVars>>

\* retryJob(jobId)
RetryJob(j) == RetryJobWithin(j, MaxRetryCalls)

\* a pruneCompletedJobs(maxAge) call and the number it returned
PruneRet(maxAge, deleted) ==
    [op |-> "pruneCompletedJobs", val |-> "number", id |-> 0,
     maxAge |-> maxAge, deleted |-> deleted]

\* PruneEligible that does not look at the age of the record
PruneEligibleAnyAge(status, cutoff) ==
    status.status \in {"success", "failure", "cancelled"}

\* the test of the loop of pruneCompletedJobs
PruneEligible(status, cutoff) ==
    /\ Truthy(status.finishedAt)
    /\ status.finishedAt < cutoff
    /\ status.status \in {"success", "failure", "cancelled"}

\* pruneCompletedJobs(maxAge)
PruneCompletedJobs(maxAge) ==
    LET cutoff == now - maxAge
        statuses == {j \in Ids : kvStatus[j].status # "absent"}
        pruned == {j \in statuses : PruneEligible(kvStatus[j], cutoff)}
        deleted == Cardinality(pruned)
    IN  /\ kvStatus' = [j \in Ids |-> IF j \in pruned THEN AbsentStatus ELSE kvStatus[j]]
        /\ kvJob' = kvJob \ pruned
        /\ ret' = PruneRet(maxAge, deleted)
        /\ UNCHANGED <<stepRun, deq, commands, stream, maxConcurrent, jobs, now, kvQueue, exec, enqCount, retryCount,
                       cacheVars>>

\* the requests whose dequeue() calls overlap
Callers == {1, 2}

\* kv.get returned null for a queue key
NoJob == 0
NoEntry == [name |-> <<>>, job |-> NoJob, seq |-> 0]

\* a request that has not called dequeue() yet
IdleCall ==
    [pc |-> "idle", first |-> NoEntry, jobData |-> NoJob, status |-> AbsentStatus,
     afterDelete |-> FALSE, ret |-> "none"]

\* the call returns val
Returned(call, val) == [call EXCEPT !.pc = "returned", !.ret = val]

\* KvGet that takes the job from the key name, without reading the entry
KvGetFromName(entries, name) ==
    CHOOSE j \in Ids : EndsWith(name, <<Colon>> \o IdStr(j))

\* kv.get(name, 'json') on the queue entries: the stored job, or null
KvGet(entries, name) ==
    IF \E e \in entries : e.name = name
    THEN (CHOOSE e \in entries : e.name = name).job
    ELSE NoJob

\* dequeue() of request c up to the admission test
DeqCount(c) ==
    /\ deq[c].pc = "idle"
    /\ LET running == getRunningJobCount IN
       deq' = [deq EXCEPT ![c] = IF AtCapacity(running) THEN Returned(@, "null")
                                  ELSE [@ EXCEPT !.pc = "list"]]
    /\ UNCHANGED <<stepRun, commands, stream, maxConcurrent, jobs, now, kvQueue, kvStatus, kvJob, exec, enqCount,
                   retryCount, ret, cacheVars>>

\* kv.list, the sort and the choice of the first key
DeqList(c) ==
    /\ deq[c].pc = "list"
    /\ deq' = [deq EXCEPT ![c] =
          IF kvQueue = {} THEN Returned(@, "null")
          ELSE [@ EXCEPT !.pc = "get", !.first = SortKeys(ListKeys(kvQueue))[1]]]
    /\ UNCHANGED <<stepRun, commands, stream, maxConcurrent, jobs, now, kvQueue, kvStatus, kvJob, exec, enqCount,
                   retryCount, ret, cacheVars>>

\* kv.get(firstKey); afterDelete tells that another request had deleted the
\* key by then
DeqGet(c) ==
    /\ deq[c].pc = "get"
    /\ LET firstKey == deq[c].first.name
           jobData == KvGet(kvQueue, firstKey)
           afterDelete == \E d \in Callers \ {c} :
                             /\ deq[d].first.name = firstKey
                             /\ deq[d].pc \in {"status", "update", "returned"}
                             /\ deq[d].jobData # NoJob
       IN  deq' = [deq EXCEPT ![c] =
              IF jobData = NoJob THEN Returned([@ EXCEPT !.afterDelete = afterDelete], "null")
              ELSE [@ EXCEPT !.pc = "delete", !.jobData = jobData,
                             !.afterDelete = afterDelete]]
    /\ UNCHANGED <<stepRun, commands, stream, maxConcurrent, jobs, now, kvQueue, kvStatus, kvJob, exec, enqCount,
                   retryCount, ret, cacheVars>>

\* kv.delete(firstKey)
DeqDelete(c) ==
    /\ deq[c].pc = "delete"
    /\ kvQueue' = {e \in kvQueue : e.name # deq[c].first.name}
    /\ deq' = [deq EXCEPT ![c] = [@ EXCEPT !.pc = "status"]]
    /\ UNCHANGED <<stepRun, commands, stream, maxConcurrent, jobs, now, kvStatus, kvJob, exec, enqCount,
                   retryCount, ret, cacheVars>>

\* getJobStatus(jobData.id)
DeqGetStatus(c) ==
    /\ deq[c].pc = "status"
    /\ deq' = [deq EXCEPT ![c] = [@ EXCEPT !.pc = "update", !.status = kvStatus[deq[c].jobData]]]
    /\ UNCHANGED <<stepRun, commands, stream, maxConcurrent, jobs, now, kvQueue, kvStatus, kvJob, exec, enqCount,
                   retryCount, ret, cacheVars>>

\* the status marked running and stored, and the return of the job
DeqUpdate(c) ==
    /\ deq[c].pc = "update"
    /\ LET status == deq[c].status
           j == deq[c].jobData
       IN  kvStatus' = IF status.status # "absent"
                       THEN [kvStatus EXCEPT ![j] = MarkRunning(status)]
                       ELSE kvStatus
    /\ deq' = [deq EXCEPT ![c] = Returned(@, "job")]
    /\ UNCHANGED <<stepRun, commands, stream, maxConcurrent, jobs, now, kvQueue, kvJob, exec, enqCount,
                   retryCount, ret, cacheVars>>

\* time passes between two calls, up to the clock value last
Tick(last) ==
    /\ now < last
    /\ now' = now + 1
    /\ UNCHANGED <<stepRun, deq, commands, stream, maxConcurrent, jobs, kvQueue, kvStatus, kvJob, exec, enqCount, retryCount, ret, cacheVars>>

(* ---------------------------- Orchestrator ---------------------------- *)
\* what one executeStep call can end with: the command exits with code 0 or
\* with a nonzero code, the timer rejects first, or the dispatch raises
StepOutcomes == {"exit0", "exitNonzero", "timeout", "exception"}

\* what sandbox.exec resolves with: stdout and stderr, each empty ("") or not,
\* and the exit code
ExitCodes == {0, 1, 2}
ExecResults == [stdout : {"", "stdout"}, stderr : {"", "stderr"}, exitCode : ExitCodes]

\* OutputOf that never falls back to stderr
OutputOfStdout(execResult) == execResult.stdout

\* execResult.stdout || execResult.stderr: the empty string is falsy
OutputOf(execResult) ==
    IF execResult.stdout # "" THEN execResult.stdout ELSE execResult.stderr

\* the three assignments after the race, for the execResult it resolved with
Completed(execResult) ==
    [status |-> IF execResult.exitCode = 0 THEN "success" ELSE "failure",
     exitCode |-> execResult.exitCode,
     output |-> OutputOf(execResult)]

\* the catch block of executeStep, for the message of what was thrown
CaughtInStep(message) == [status |-> "failure", exitCode |-> 1, output |-> message]

\* executeStep(step, job, sandbox): the StepResult for an outcome
executeStep(outcome) ==
    CASE outcome = "exit0" -> Completed([stdout |-> "stdout", stderr |-> "", exitCode |-> 0])
      [] outcome = "exitNonzero" -> Completed([stdout |-> "stdout", stderr |-> "", exitCode |-> 2])
      [] outcome = "timeout" -> CaughtInStep("Step timeout")
      [] OTHER -> CaughtInStep("error.message")

\* the race of executeStep does not stop the loser: when the timer wins, the
\* command dispatched by sandbox.exec goes on executing in the sandbox
LeftRunning(outcome) == outcome = "timeout"

\* a command that was left executing comes to its end
CommandEnds(j, i) ==
    /\ <<j, i>> \in commands
    /\ commands' = commands \ {<<j, i>>}
    /\ UNCHANGED <<stepRun, deq, stream, maxConcurrent, jobs, now, kvQueue, kvStatus, kvJob, exec,
                   enqCount, retryCount, ret, cacheVars>>

\* StopsOnFailure without the break
StopsNever(stepResult, step) == FALSE

\* stepResult.status === 'failure' && !step.continueOnError
StopsOnFailure(stepResult, step) ==
    stepResult.status = "failure" /\ ~step.continueOnError

\* AllStepsSucceeded with some in place of every
SomeStepSucceeded(steps) ==
    \E k \in 1..Len(steps) : steps[k].status \in {"success", "skipped"}

\* status.steps.every(s => s.status === 'success' || s.status === 'skipped')
AllStepsSucceeded(steps) ==
    \A k \in 1..Len(steps) : steps[k].status \in {"success", "skipped"}

\* CatchBlock that keeps the message to itself
CatchBlockNoMessage(status, what) == [status EXCEPT !.status = "failure"]

\* the catch block of executeJob
CatchBlock(status, what) ==
    [status EXCEPT !.status = "failure", !.error = ExceptionError(what)]

\* the finally block of executeJob, before the persist
FinallyBlock(status) ==
    LET finishedAt == now IN
    [status EXCEPT !.finishedAt = finishedAt,
                   !.duration = IF Truthy(status.startedAt)
                                THEN finishedAt - status.startedAt ELSE @]

\* status.steps[i] = stepResult, for the 0-based i (an index past the end extends the array)
SetStep(steps, i, stepResult) ==
    [k \in 1..(IF i + 1 > Len(steps) THEN i + 1 ELSE Len(steps)) |->
        IF k = i + 1 THEN stepResult
        ELSE IF k <= Len(steps) THEN steps[k] ELSE PendingStep]

\* RestoreEscapes letting the exception of a failed restore through
RestoreEscapesOnError(restore) == restore = "error"

\* the try/catch of the restoreCache wrapper: no exception of key generation
\* or of the restore leaves it
RestoreEscapes(restore) == FALSE

\* SaveEscapes letting the exception of a failed save through
SaveEscapesOnError(save) == save = "error"

\* the try/catch of the saveCache wrapper: no exception of key generation or
\* of the save leaves it
SaveEscapes(save) == FALSE

\* executeJob between the loop and the finally block: the success test, the
\* saveCache wrapper (which catches what the save throws), createSnapshot
AfterLoop(proc, job, save, snapshot) ==
    LET status == IF AllStepsSucceeded(proc.status.steps)
                  THEN [proc.status EXCEPT !.status = "success"]
                  ELSE proc.status
    IN  IF status.status # "success"
        THEN [proc EXCEPT !.pc = "finally", !.status = status]
        ELSE LET saved == [proc EXCEPT !.pc = "finally",
                                       !.save = IF job.cacheKeys THEN save ELSE "none"]
             IN  IF job.cacheKeys /\ SaveEscapes(save)
                 THEN [saved EXCEPT !.thrown = "save",
                                    !.status = CatchBlock(status, "save")]
                 ELSE IF snapshot = "throw"
                 THEN [saved EXCEPT !.thrown = "snapshot",
                                    !.status = CatchBlock(status, "snapshot")]
                 ELSE [saved EXCEPT !.status = status]

\* what the collaborators of one executeJob call may do: each field is the set
\* of results the call can get from that collaborator
CalmEnv ==
    [setup |-> {"ok"}, restore |-> {"hit", "miss"}, persist |-> {"ok"},
     outcomes |-> {"exit0", "exitNonzero"}, save |-> {"ok"}, snapshot |-> {"ok"},
     final |-> {"ok"}]
FaultyEnv ==
    [setup |-> {"ok", "throw"}, restore |-> {"hit", "miss", "error"}, persist |-> {"ok", "throw"},
     outcomes |-> StepOutcomes, save |-> {"ok", "error"}, snapshot |-> {"ok", "throw"},
     final |-> {"ok", "throw"}]
\* a sandbox whose setup commands may fail: sandbox.exec rejects, or it
\* resolves with a nonzero exitCode, which setupWorkspace does not read
SetupEnv ==
    [CalmEnv EXCEPT !.setup = {"ok", "exitNonzero", "throw"}]

\* executeJob from the loaded status to the loop, for the results its
\* collaborators give
Started(j, setup, restore, save, snapshot) ==
    LET loaded == [exec[j] EXCEPT !.status = kvStatus[j], !.setup = setup] IN
    IF setup = "throw"
    THEN [loaded EXCEPT !.pc = "finally", !.thrown = "setup",
                        !.status = CatchBlock(@, "setup")]
    ELSE IF RestoreEscapes(restore)
    THEN [loaded EXCEPT !.pc = "finally", !.thrown = "restore", !.cache = restore,
                        !.status = CatchBlock(@, "restore")]
    ELSE IF Len(jobs[j].steps) > 0
    THEN [loaded EXCEPT !.pc = "loop", !.cache = restore]
    ELSE AfterLoop([loaded EXCEPT !.cache = restore], jobs[j], save, snapshot)

\* the local steps of executeJob are joined to the store access before them:
\* they touch nothing but the call's own status object

\* executeJob up to the loop: getJobStatus (throwing when there is none),
\* setupWorkspace, the restoreCache wrapper (which catches what the restore throws)
ExecStart(j, env) ==
    /\ exec[j].pc = "start"
    /\ IF kvStatus[j].status = "absent"
       THEN exec' = [exec EXCEPT ![j] = [@ EXCEPT !.pc = "threw", !.thrown = "nostatus"]]
       ELSE \E setup \in env.setup, save \in env.save, snapshot \in env.snapshot :
            \E restore \in (IF jobs[j].cacheKeys THEN env.restore ELSE {"none"}) :
               exec' = [exec EXCEPT ![j] = Started(j, setup, restore, save, snapshot)]
    /\ UNCHANGED <<stepRun, deq, commands, stream, maxConcurrent, jobs, now, kvQueue, kvStatus, kvJob, enqCount, retryCount, ret, cacheVars>>

\* one iteration of the step loop: status.currentStep = i and updateJobStatus,
\* executeStep, the slot write and the stop test; after the last iteration the
\* code up to the finally block
ExecIteration(j, env) ==
    /\ exec[j].pc = "loop"
    /\ LET i == exec[j].i
           step == jobs[j].steps[i + 1]
           status == [exec[j].status EXCEPT !.currentStep = i]
       IN  \E persist \in env.persist :
           IF persist = "throw"
           THEN /\ kvStatus' = kvStatus
                /\ commands' = commands
                /\ exec' = [exec EXCEPT ![j] =
                      [@ EXCEPT !.pc = "finally", !.thrown = "persist",
                                !.status = CatchBlock(status, "persist")]]
           ELSE /\ kvStatus' = [kvStatus EXCEPT ![j] = status]
                /\ \E outcome \in env.outcomes, save \in env.save, snapshot \in env.snapshot :
                   LET stepResult == executeStep(outcome)
                       written == [status EXCEPT !.steps = SetStep(@, i, stepResult)]
                       ran == [exec[j] EXCEPT !.log = Append(@, stepResult)]
                   IN  /\ commands' = IF LeftRunning(outcome) THEN commands \cup {<<j, i>>}
                                       ELSE commands
                       /\ exec' = [exec EXCEPT ![j] =
                             IF StopsOnFailure(stepResult, step)
                             THEN AfterLoop([ran EXCEPT !.status =
                                                [written EXCEPT !.status = "failure",
                                                                !.error = StepFailedError(i)]],
                                            jobs[j], save, snapshot)
                             ELSE IF i + 1 < Len(jobs[j].steps)
                             THEN [ran EXCEPT !.i = i + 1, !.status = written]
                             ELSE AfterLoop([ran EXCEPT !.i = i + 1, !.status = written],
                                            jobs[j], save, snapshot)]
    /\ UNCHANGED <<stepRun, deq, stream, maxConcurrent, jobs, now, kvQueue, kvJob, enqCount, retryCount, ret, cacheVars>>

\* the finally block and the return; an exception of this last updateJobStatus
\* leaves the finally block and reaches the caller
ExecFinally(j, env) ==
    /\ exec[j].pc = "finally"
    /\ LET status == FinallyBlock(exec[j].status) IN
       \E final \in env.final :
       IF final = "throw"
       THEN /\ kvStatus' = kvStatus
            /\ exec' = [exec EXCEPT ![j] = [@ EXCEPT !.pc = "threw", !.status = status]]
       ELSE /\ kvStatus' = [kvStatus EXCEPT ![j] = status]
            /\ exec' = [exec EXCEPT ![j] = [@ EXCEPT !.pc = "done", !.status = status]]
    /\ UNCHANGED <<stepRun, deq, commands, stream, maxConcurrent, jobs, now, kvQueue, kvJob, enqCount, retryCount, ret, cacheVars>>

\* streamJobLogs(jobId): the stream is created with lastStep = -1 and the
\* interval is set; early tells that the job had a status and had not started
\* its first step then
OpenStream(j) ==
    /\ stream.state = "none"
    /\ stream' = [state |-> "open", job |-> j, lastStep |-> -1, emitted |-> <<>>,
                  early |-> /\ kvStatus[j].status \in {"queued", "running"}
                            /\ kvStatus[j].currentStep = Undef
                            /\ exec[j].log = <<>>]
    /\ UNCHANGED <<stepRun, deq, commands, maxConcurrent, jobs, now, kvQueue, kvStatus, kvJob,
                   exec, enqCount, retryCount, ret, cacheVars>>

\* step && step.output, for the 0-based i: the slot exists and its output
\* is a non-empty string
HasOutput(steps, i) ==
    /\ i + 1 <= Len(steps)
    /\ steps[i + 1].output \notin {"none", ""}

RECURSIVE NewOutputs(_, _, _)
\* the loop from i to last over status.steps: the indices it enqueues
NewOutputs(steps, i, last) ==
    IF i > last THEN <<>>
    ELSE (IF HasOutput(steps, i) THEN <<i>> ELSE <<>>) \o NewOutputs(steps, i + 1, last)

\* one run of the interval callback: getJobStatus, the new outputs up to
\* currentStep, close and clearInterval on a terminal status or none
StreamPoll ==
    /\ stream.state = "open"
    /\ LET status == kvStatus[stream.job] IN
       stream' =
          IF status.status = "absent"
          THEN [stream EXCEPT !.state = "closed"]
          ELSE LET advance == status.currentStep # Undef /\ status.currentStep > stream.lastStep
                   polled == IF advance
                             THEN [stream EXCEPT
                                     !.emitted = @ \o NewOutputs(status.steps, stream.lastStep + 1,
                                                                 status.currentStep),
                                     !.lastStep = status.currentStep]
                             ELSE stream
               IN  IF status.status \in TerminalStatuses
                   THEN [polled EXCEPT !.state = "closed"]
                   ELSE polled
    /\ UNCHANGED <<stepRun, deq, commands, maxConcurrent, jobs, now, kvQueue, kvStatus, kvJob,
                   exec, enqCount, retryCount, ret, cacheVars>>

(* ---------------------------- CacheManager ---------------------------- *)
Dash == 45
\* job.repo and job.commit of the job whose cache is managed: "r", "c"
Repo == <<114>>
Commit == <<99>>

\* the manifest paths a job can name in cacheKeys, and the orders to name them in
LockPaths == {1, 2}
LockfileLists == {<<>>, <<1>>, <<2>>, <<1, 2>>, <<2, 1>>}

\* a file of the sandbox: sandbox.readFile throws when it does not exist
Missing == [exists |-> FALSE, content |-> <<>>]
File(content) == [exists |-> TRUE, content |-> content]
\* the contents explored: "a", "aa", "b"
Contents == {<<97>>, <<97, 97>>, <<98>>}
FileStates == {Missing} \cup {File(c) : c \in Contents}

\* the candidate cache directories (node_modules, .venv, ...)
CachePaths == {1, 2}

\* one hexadecimal digit
HexDigit(n) == IF n < 10 THEN Digit0 + n ELSE 87 + n

RECURSIVE HexOf(_)
\* createHash('sha256').update(s).digest('hex').slice(0, 12), the digest taken
\* as collision-free: an injective hexadecimal encoding of s
HexOf(s) ==
    IF s = <<>> THEN <<>>
    ELSE <<HexDigit(Head(s) \div 16), HexDigit(Head(s) % 16)>> \o HexOf(Tail(s))

\* ReadContents that reads every manifest of the sandbox, listed or not
ReadEveryManifest(lockfiles, fs) ==
    LET RECURSIVE All(_)
        All(ps) == IF ps = {} THEN <<>>
                   ELSE LET p == CHOOSE x \in ps : \A y \in ps : x <= y
                        IN  (IF fs[p].exists THEN <<fs[p].content>> ELSE <<>>) \o All(ps \ {p})
    IN  All(LockPaths)

RECURSIVE ReadContents(_, _)
\* the loop over lockfiles: the content of each file that can be read, in
\* the order of the list; a file that cannot be read is skipped
ReadContents(lockfiles, fs) ==
    IF lockfiles = <<>> THEN <<>>
    ELSE (IF fs[Head(lockfiles)].exists THEN <<fs[Head(lockfiles)].content>> ELSE <<>>)
         \o ReadContents(Tail(lockfiles), fs)

RECURSIVE Join(_, _)
\* Array.prototype.join(separator)
Join(parts, separator) ==
    IF parts = <<>> THEN <<>>
    ELSE IF Len(parts) = 1 THEN parts[1]
    ELSE parts[1] \o separator \o Join(Tail(parts), separator)

\* generateCacheKey(repo, commit, lockfiles, sandbox?), fs the files of the
\* sandbox and sandbox telling whether one was passed
generateCacheKey(repo, commit, lockfiles, fs, sandbox) ==
    LET lockfileContents == ReadContents(lockfiles, fs)
        parts == IF sandbox /\ Len(lockfiles) > 0 /\ Len(lockfileContents) > 0
                 THEN <<repo, commit, HexOf(Join(lockfileContents, <<>>))>>
                 ELSE <<repo, commit>>
    IN  Join(parts, <<Dash>>)

\* `cache/${cacheKey}.tar.gz`
ArchiveKey(cacheKey) ==
    <<99, 97, 99, 104, 101, 47>> \o cacheKey \o <<46, 116, 97, 114, 46, 103, 122>>

\* a CacheManager call and what it returned; again tells that the call before
\* it was the same call
CRet(op, key, val) ==
    [op |-> op, key |-> key, val |-> val, again |-> cret.op = op /\ cret.key = key]

\* a call of generateCacheKey, recorded with the files it found; the last two
\* calls are kept
GenerateKey(lockfiles, sandbox) ==
    LET call == [lockfiles |-> lockfiles, sandbox |-> sandbox, fs |-> files,
                 key |-> generateCacheKey(Repo, Commit, lockfiles, files, sandbox)]
    IN  /\ keyCalls' = IF Len(keyCalls) < 2 THEN Append(keyCalls, call)
                       ELSE <<keyCalls[2], call>>
        /\ UNCHANGED <<stepRun, deq, commands, stream, maxConcurrent, jobs, now, kvQueue, kvStatus, kvJob, exec, enqCount,
                       retryCount, ret, files, dirs, r2, kvCache, cret>>

\* a step of the job writes, rewrites or deletes a manifest
WriteFile(path, file) ==
    /\ files[path] # file
    /\ files' = [files EXCEPT ![path] = file]
    /\ UNCHANGED <<stepRun, deq, commands, stream, maxConcurrent, jobs, now, kvQueue, kvStatus, kvJob, exec, enqCount,
                   retryCount, ret, dirs, r2, kvCache, keyCalls, cret>>

\* a step of the job creates or removes a cache directory
SetDirs(existing) ==
    /\ dirs # existing
    /\ dirs' = existing
    /\ UNCHANGED <<stepRun, deq, commands, stream, maxConcurrent, jobs, now, kvQueue, kvStatus, kvJob, exec, enqCount,
                   retryCount, ret, files, r2, kvCache, keyCalls, cret>>

\* r2.put / kv.put: the entry under a name is replaced
PutObject(bucket, object) == {o \in bucket : o.name # object.name} \cup {object}

\* a saveCache call with its candidate paths, and what it returned
CRetSave(key, paths, val) ==
    [op |-> "saveCache", key |-> key, val |-> val,
     again |-> cret.op = "saveCache" /\ cret.key = key, paths |-> paths]

\* ExistingPaths that takes every candidate path without the test
ExistingPathsUntested(paths) == paths

\* the loop over paths with `test -d`: the candidate paths that are
\* directories of the sandbox
ExistingPaths(paths) == {path \in paths : path \in dirs}

\* saveCache(cacheKey, paths, sandbox)
SaveCache(cacheKey, paths) ==
    LET archiveKey == ArchiveKey(cacheKey)
        timestamp == now
        existingPaths == ExistingPaths(paths)
    IN  IF existingPaths = {}
        THEN /\ cret' = CRetSave(cacheKey, paths, "throw")
             /\ UNCHANGED <<r2, kvCache>>
        ELSE /\ (\E o \in r2 : o.name = archiveKey) \/ Cardinality(r2) < MaxBundles
             /\ r2' = PutObject(r2, [name |-> archiveKey, cacheKey |-> cacheKey,
                                     archived |-> existingPaths, paths |-> paths,
                                     timestamp |-> timestamp])
             /\ kvCache' = PutObject(kvCache, [name |-> cacheKey, paths |-> paths,
                                               lastUsed |-> timestamp])
             /\ cret' = CRetSave(cacheKey, paths, "ok")

\* RestoreMiss taking a missing object for a hit
RestoreMissNever(object) == FALSE

\* if (!object): r2.get found nothing under the archive key
RestoreMiss(object) == object = {}

\* restoreCache(cacheKey, sandbox)
RestoreCache(cacheKey) ==
    LET archiveKey == ArchiveKey(cacheKey)
        object == {o \in r2 : o.name = archiveKey}
    IN  IF RestoreMiss(object)
        THEN /\ cret' = CRet("restoreCache", cacheKey, "false")
             /\ UNCHANGED <<dirs, kvCache>>
        ELSE /\ dirs' = dirs \cup UNION {o.archived : o \in object}
             /\ kvCache' = {IF m.name = cacheKey THEN [m EXCEPT !.lastUsed = now] ELSE m :
                               m \in kvCache}
             /\ cret' = CRet("restoreCache", cacheKey, "true")

\* the cache keys of the job for the manifests as they are now
CurrentKeys == {generateCacheKey(Repo, Commit, l, files, TRUE) : l \in {<<>>, <<1>>}}

\* a direct saveCache call
CallSaveCache ==
    /\ \E cacheKey \in CurrentKeys, paths \in (SUBSET CachePaths) : SaveCache(cacheKey, paths)
    /\ UNCHANGED <<stepRun, deq, commands, stream, maxConcurrent, jobs, now, kvQueue, kvStatus, kvJob, exec, enqCount,
                   retryCount, ret, files, dirs, keyCalls>>

\* a direct restoreCache call
CallRestoreCache ==
    /\ \E cacheKey \in CurrentKeys : RestoreCache(cacheKey)
    /\ UNCHANGED <<stepRun, deq, commands, stream, maxConcurrent, jobs, now, kvQueue, kvStatus, kvJob, exec, enqCount,
                   retryCount, ret, files, r2, keyCalls>>

\* what a generateCacheKey call of the Orchestrator reads and returns
KeyCall(lockfiles) ==
    [lockfiles |-> lockfiles, sandbox |-> TRUE, fs |-> files,
     key |-> generateCacheKey(Repo, Commit, lockfiles, files, TRUE)]

\* the restoreCache wrapper of a new executeJob run for a job with the
\* cacheKeys lockfiles: generateCacheKey on the sandbox as it is, then
\* cacheManager.restoreCache with that key
JobRestoreCache(lockfiles) ==
    /\ Len(keyCalls) # 1
    /\ Len(lockfiles) > 0
    /\ keyCalls' = <<KeyCall(lockfiles)>>
    /\ RestoreCache(KeyCall(lockfiles).key)
    /\ UNCHANGED <<stepRun, deq, commands, stream, maxConcurrent, jobs, now, kvQueue, kvStatus,
                   kvJob, exec, enqCount, retryCount, ret, files, r2>>

\* the saveCache wrapper of the run: generateCacheKey on the sandbox as the
\* steps left it, then cacheManager.saveCache with that key and the default
\* cache paths
JobSaveCache ==
    /\ Len(keyCalls) = 1
    /\ LET call == KeyCall(keyCalls[1].lockfiles) IN
       /\ keyCalls' = Append(keyCalls, call)
       /\ SaveCache(call.key, CachePaths)
    /\ UNCHANGED <<stepRun, deq, commands, stream, maxConcurrent, jobs, now, kvQueue, kvStatus,
                   kvJob, exec, enqCount, retryCount, ret, files, dirs>>

(* ---------------------------- executeStep ----------------------------- *)
\* setTimeout(..., timeout * 1000)
MsPerSecond == 1000
\* step.timeout || 300
DefaultStepTimeout == 300
\* JobStep.timeout and JobConfig.timeout are optional; an absent timeout and
\* the timeout 0 are both falsy
NoTimeout == 0
StepTimeouts == {NoTimeout, 1, 2}
JobTimeouts == {NoTimeout, 1}

\* what the command of a step does: it exits, it never returns, or the
\* dispatch is rejected
CommandKinds == {"exit0", "exitNonzero", "exception", "never"}

\* no executeStep call yet, for a step and a job with these timeouts and a
\* command of this kind
StepIdle(timeout, jobTimeout, cmd) ==
    [pc |-> "idle", timeout |-> timeout, jobTimeout |-> jobTimeout, cmd |-> cmd,
     settled |-> FALSE, by |-> "none", deadline |-> Undef,
     result |-> [status |-> "pending", exitCode |-> Undef, output |-> "none",
                 startedAt |-> Undef, finishedAt |-> Undef, duration |-> Undef]]

\* the finally block of executeStep: finishedAt and duration
StampStep(result, outcome) ==
    LET finishedAt == now IN
    [result EXCEPT !.status = outcome.status, !.exitCode = outcome.exitCode,
                   !.output = outcome.output, !.finishedAt = finishedAt,
                   !.duration = finishedAt - result.startedAt]

\* step.timeout || 300: the delay of the timer of the race, in seconds
TimerDelaySeconds(timeout) == IF timeout # NoTimeout THEN timeout ELSE DefaultStepTimeout

\* LateSettle that lets the late completion write the StepResult
LateSettleOverwrites(result, outcome) == StampStep(result, outcome)

\* a promise of the race that settles after the race is decided: its value
\* is dropped
LateSettle(result, outcome) == result

\* executeStep up to the race: the StepResult is created, the command is
\* dispatched and the timer is set
StepStart ==
    /\ stepRun.pc = "idle"
    /\ stepRun' = [stepRun EXCEPT
          !.pc = "racing",
          !.result = [@ EXCEPT !.status = "running", !.startedAt = now],
          !.deadline = now + TimerDelaySeconds(stepRun.timeout) * MsPerSecond]
    /\ UNCHANGED <<deq, commands, stream, maxConcurrent, jobs, now, kvQueue, kvStatus, kvJob, exec, enqCount,
                   retryCount, ret, cacheVars>>

\* the command settles first: the race resolves with its result, or rejects
\* with its exception
StepCommandWins ==
    /\ stepRun.pc = "racing"
    /\ stepRun.cmd # "never"
    /\ stepRun' = [stepRun EXCEPT
          !.pc = "returned", !.settled = TRUE, !.by = "command",
          !.result = StampStep(@, executeStep(stepRun.cmd))]
    /\ UNCHANGED <<deq, commands, stream, maxConcurrent, jobs, now, kvQueue, kvStatus, kvJob, exec, enqCount,
                   retryCount, ret, cacheVars>>

\* an executeStep call not made yet whose command, when it completes, resolves
\* with execResult
StepCall(timeout, cmd, execResult) ==
    [execResult |-> execResult] @@ StepIdle(timeout, NoTimeout, cmd)

\* the command settles first, resolving with its execResult or rejecting
StepCommandSettles ==
    /\ stepRun.pc = "racing"
    /\ stepRun.cmd # "never"
    /\ stepRun' = [stepRun EXCEPT
          !.pc = "returned", !.settled = TRUE, !.by = "command",
          !.result = StampStep(@, IF stepRun.cmd = "exception"
                                  THEN CaughtInStep("error.message")
                                  ELSE Completed(stepRun.execResult))]
    /\ UNCHANGED <<deq, commands, stream, maxConcurrent, jobs, now, kvQueue, kvStatus, kvJob, exec, enqCount,
                   retryCount, ret, cacheVars>>

\* the timer fires first: the race rejects with 'Step timeout'
StepTimerWins ==
    /\ stepRun.pc = "racing"
    /\ now >= stepRun.deadline
    /\ stepRun' = [stepRun EXCEPT
          !.pc = "returned", !.by = "timer",
          !.result = StampStep(@, executeStep("timeout"))]
    /\ UNCHANGED <<deq, commands, stream, maxConcurrent, jobs, now, kvQueue, kvStatus, kvJob, exec, enqCount,
                   retryCount, ret, cacheVars>>

\* the command settles after executeStep has returned on the timer
StepLateCompletion ==
    /\ stepRun.pc = "returned"
    /\ stepRun.by = "timer"
    /\ stepRun.cmd # "never"
    /\ ~stepRun.settled
    /\ stepRun' = [stepRun EXCEPT
          !.settled = TRUE,
          !.result = LateSettle(@, executeStep(stepRun.cmd))]
    /\ UNCHANGED <<deq, commands, stream, maxConcurrent, jobs, now, kvQueue, kvStatus, kvJob, exec, enqCount,
                   retryCount, ret, cacheVars>>

\* a second passes
SecondPasses ==
    /\ now < MaxStepSeconds * MsPerSecond
    /\ now' = now + MsPerSecond
    /\ UNCHANGED <<stepRun, deq, commands, stream, maxConcurrent, jobs, kvQueue, kvStatus, kvJob, exec, enqCount,
                   retryCount, ret, cacheVars>>

\* nothing happens until the timer of the race is due
WaitForTimer ==
    /\ stepRun.pc = "racing"
    /\ now < stepRun.deadline
    /\ now' = stepRun.deadline
    /\ UNCHANGED <<stepRun, deq, commands, stream, maxConcurrent, jobs, kvQueue, kvStatus, kvJob, exec, enqCount,
                   retryCount, ret, cacheVars>>

(* --------------------------- specifications --------------------------- *)
\* the step lists of at most n steps, each step with its continueOnError flag
RECURSIVE StepLists(_)
StepLists(n) ==
    IF n = 0 THEN {<<>>}
    ELSE LET shorter == StepLists(n - 1)
         IN  shorter \cup {Append(l, [continueOnError |-> c]) :
                              l \in {x \in shorter : Len(x) = n - 1}, c \in BOOLEAN}

\* an empty store, nothing in flight
EmptyStore ==
    /\ now = 1
    /\ kvQueue = {}
    /\ kvStatus = [j \in Ids |-> AbsentStatus]
    /\ kvJob = {}
    /\ exec = [j \in Ids |-> IdleProc]
    /\ enqCount = 0
    /\ retryCount = 0
    /\ ret = Ret("none", "none")
    /\ deq = [c \in Callers |-> IdleCall]
    /\ commands = {}
    /\ stream = NoStream

\* no cache activity: no manifest, no cache directory, an empty bucket
EmptyCache ==
    /\ files = [p \in LockPaths |-> Missing]
    /\ dirs = {}
    /\ r2 = {}
    /\ kvCache = {}
    /\ keyCalls = <<>>
    /\ cret = [op |-> "none", key |-> <<>>, val |-> "none", again |-> FALSE]

\* no executeStep call is followed
NoStepRun == stepRun = StepIdle(NoTimeout, NoTimeout, "exit0")

\* one step, stopping the job when it fails or not
OneStep(continueOnError) == <<[continueOnError |-> continueOnError]>>

(* The queue and the pipeline together: MaxJobs jobs of any priority, one     *)
(* step each, clients that submit, cancel and retry, one scheduler polling    *)
(* dequeue and running executeJob for every job it gets; collaborators that   *)
(* do not throw.                                                              *)
Init ==
    /\ maxConcurrent \in 1..MaxConcurrentCfg
    /\ jobs \in [1..MaxJobs -> [priority : Priorities,
                                steps : {OneStep(c) : c \in BOOLEAN},
                                cacheKeys : {FALSE}]]
    /\ EmptyStore
    /\ EmptyCache
    /\ NoStepRun

Next ==
    \/ Tick(MaxTime)
    \/ \E j \in Ids : SubmitJob(j)
    \/ Dequeue
    \/ \E j \in Ids : CancelJob(j)
    \/ \E j \in Ids : RetryJob(j)
    \/ \E j \in Ids : ExecStart(j, CalmEnv)
    \/ \E j \in Ids : ExecIteration(j, CalmEnv)
    \/ \E j \in Ids : ExecFinally(j, CalmEnv)

Spec == Init /\ [][Next]_vars

(* Scheduling only: one job more, priorities 5 and 8, no client cancels or    *)
(* retries.                                                                   *)
InitSched ==
    /\ maxConcurrent \in 1..MaxConcurrentCfg
    /\ jobs \in [1..(MaxJobs + 1) -> [priority : {5, 8}, steps : {OneStep(FALSE)},
                                      cacheKeys : {FALSE}]]
    /\ EmptyStore
    /\ EmptyCache
    /\ NoStepRun

NextSched ==
    \/ Tick(MaxTime + 1)
    \/ \E j \in Ids : SubmitJob(j)
    \/ Dequeue
    \/ \E j \in Ids : ExecStart(j, CalmEnv)
    \/ \E j \in Ids : ExecIteration(j, CalmEnv)
    \/ \E j \in Ids : ExecFinally(j, CalmEnv)

SpecSched == InitSched /\ [][NextSched]_vars

(* The pipeline of one job: every step list of at most MaxExecSteps steps,    *)
(* with or without cache keys, collaborators that may throw at every call,    *)
(* a stored config that may expire, a client that may cancel and retry        *)
(* meanwhile.                                                                 *)
InitExec ==
    /\ maxConcurrent = 1
    /\ jobs \in [{1} -> [priority : {NoPriority}, steps : StepLists(MaxExecSteps),
                         cacheKeys : BOOLEAN]]
    /\ EmptyStore
    /\ EmptyCache
    /\ NoStepRun

NextExec ==
    \/ Tick(MaxTime)
    \/ \E j \in Ids : SubmitJob(j)
    \/ \E j \in Ids : ExpireJobConfig(j)
    \/ Dequeue
    \/ \E j \in Ids : CancelJob(j)
    \/ \E j \in Ids : RetryJob(j)
    \/ \E j \in Ids : ExecStart(j, FaultyEnv)
    \/ \E j \in Ids : ExecIteration(j, FaultyEnv)
    \/ \E j \in Ids : ExecFinally(j, FaultyEnv)

SpecExec == InitExec /\ [][NextExec]_vars

(* Resubmission: one job of one step that clients submit, submit again,       *)
(* cancel and retry, and the cron scheduler, which runs the job it dequeues   *)
(* to the end before it polls again; collaborators that do not throw.         *)
InitResubmit ==
    /\ maxConcurrent \in 1..MaxConcurrentCfg
    /\ jobs \in [{1} -> [priority : {NoPriority}, steps : {OneStep(c) : c \in BOOLEAN},
                         cacheKeys : {FALSE}]]
    /\ EmptyStore
    /\ EmptyCache
    /\ NoStepRun

NextResubmit ==
    \/ Tick(MaxTime + 1)
    \/ \E j \in Ids : SubmitJob(j)
    \/ \E j \in Ids : SubmitAgain(j)
    \/ DequeueAfterReturn
    \/ \E j \in Ids : CancelJob(j)
    \/ \E j \in Ids : RetryJob(j)
    \/ \E j \in Ids : ExecStart(j, CalmEnv)
    \/ \E j \in Ids : ExecIteration(j, CalmEnv)
    \/ \E j \in Ids : ExecFinally(j, CalmEnv)

SpecResubmit == InitResubmit /\ [][NextResubmit]_vars

(* Runs of one job id after one another: a job of one or two steps that       *)
(* clients submit and submit again under the same id, and the cron scheduler, *)
(* which runs the job it dequeues to the end before it polls again.           *)
InitRerun ==
    /\ maxConcurrent = 1
    /\ jobs \in [{1} -> [priority : {NoPriority}, steps : StepLists(2) \ {<<>>},
                         cacheKeys : {FALSE}]]
    /\ EmptyStore
    /\ EmptyCache
    /\ NoStepRun

NextRerun ==
    \/ Tick(MaxTime)
    \/ \E j \in Ids : SubmitJob(j)
    \/ \E j \in Ids : SubmitAgain(j)
    \/ DequeueAfterReturn
    \/ \E j \in Ids : ExecStart(j, CalmEnv)
    \/ \E j \in Ids : ExecIteration(j, CalmEnv)
    \/ \E j \in Ids : ExecFinally(j, CalmEnv)

SpecRerun == InitRerun /\ [][NextRerun]_vars

(* Cancellation among ids that end alike: job 1 with id "a" and job 2 with    *)
(* id "b:a" (or "b"), of any priorities, that clients submit and cancel, and  *)
(* the scheduler polling dequeue.                                             *)
InitCancel ==
    /\ maxConcurrent = 1
    /\ jobs \in {[j \in 1..MaxJobs |->
                     [priority |-> pr[j], steps |-> OneStep(FALSE), cacheKeys |-> FALSE,
                      id |-> IF j = 1 THEN <<97>> ELSE other]] :
                  pr \in [1..MaxJobs -> Priorities], other \in {<<98, Colon, 97>>, <<98>>}}
    /\ EmptyStore
    /\ EmptyCache
    /\ NoStepRun

NextCancel ==
    \/ Tick(MaxTime)
    \/ \E j \in Ids : SubmitJob(j)
    \/ Dequeue
    \/ \E j \in Ids : CancelJob(j)

SpecCancel == InitCancel /\ [][NextCancel]_vars

\* the maxAge arguments explored, in clock ticks
PruneAges == {0, 1}

(* Retention: two jobs of one step that clients submit and cancel, the        *)
(* scheduler that runs them, and pruneCompletedJobs called at any time with   *)
(* any of the ages; collaborators that do not throw.                          *)
InitPrune ==
    /\ maxConcurrent = MaxConcurrentCfg
    /\ jobs \in [1..MaxJobs -> [priority : {NoPriority}, steps : {OneStep(c) : c \in BOOLEAN},
                                cacheKeys : {FALSE}]]
    /\ EmptyStore
    /\ EmptyCache
    /\ NoStepRun

NextPrune ==
    \/ Tick(MaxTime)
    \/ \E j \in Ids : enqCount < MaxEnqueues /\ SubmitJob(j)
    \/ Dequeue
    \/ \E j \in Ids : CancelJob(j)
    \/ \E maxAge \in PruneAges : PruneCompletedJobs(maxAge)
    \/ \E j \in Ids : ExecStart(j, CalmEnv)
    \/ \E j \in Ids : ExecIteration(j, CalmEnv)
    \/ \E j \in Ids : ExecFinally(j, CalmEnv)

SpecPrune == InitPrune /\ [][NextPrune]_vars

(* Workspace setup: one job of at most two steps, a sandbox whose setup       *)
(* commands may fail, collaborators that do not throw otherwise.              *)
InitSetup ==
    /\ maxConcurrent = 1
    /\ jobs \in [{1} -> [priority : {NoPriority}, steps : StepLists(2), cacheKeys : {FALSE}]]
    /\ EmptyStore
    /\ EmptyCache
    /\ NoStepRun

NextSetup ==
    \/ Tick(MaxTime)
    \/ \E j \in Ids : SubmitJob(j)
    \/ Dequeue
    \/ \E j \in Ids : ExecStart(j, SetupEnv)
    \/ \E j \in Ids : ExecIteration(j, SetupEnv)
    \/ \E j \in Ids : ExecFinally(j, SetupEnv)

SpecSetup == InitSetup /\ [][NextSetup]_vars

\* a sandbox whose commands may outlast the timer of their step
SlowEnv ==
    [CalmEnv EXCEPT !.outcomes = {"exit0", "exitNonzero", "timeout"}]

(* Steps in the sandbox: one job of at most MaxExecSteps steps whose          *)
(* commands exit, or outlast their timer and end later or never.              *)
InitSerial ==
    /\ maxConcurrent = 1
    /\ jobs \in [{1} -> [priority : {NoPriority}, steps : StepLists(MaxExecSteps),
                         cacheKeys : {FALSE}]]
    /\ EmptyStore
    /\ EmptyCache
    /\ NoStepRun

NextSerial ==
    \/ Tick(MaxTime)
    \/ \E j \in Ids : SubmitJob(j)
    \/ Dequeue
    \/ \E j \in Ids : ExecStart(j, SlowEnv)
    \/ \E j \in Ids : ExecIteration(j, SlowEnv)
    \/ \E j \in Ids : ExecFinally(j, SlowEnv)
    \/ \E j \in Ids, i \in 0..(MaxExecSteps - 1) : CommandEnds(j, i)

SpecSerial == InitSerial /\ [][NextSerial]_vars

(* Log streaming: one job of at most MaxExecSteps steps run by the scheduler, *)
(* and one client that opens a log stream on it at any time; the interval     *)
(* callback of the stream runs at any time between the status writes.         *)
InitStream ==
    /\ maxConcurrent = 1
    /\ jobs \in [{1} -> [priority : {NoPriority}, steps : StepLists(MaxExecSteps),
                         cacheKeys : {FALSE}]]
    /\ EmptyStore
    /\ EmptyCache
    /\ NoStepRun

NextStream ==
    \/ \E j \in Ids : SubmitJob(j)
    \/ Dequeue
    \/ \E j \in Ids : ExecStart(j, CalmEnv)
    \/ \E j \in Ids : ExecIteration(j, CalmEnv)
    \/ \E j \in Ids : ExecFinally(j, CalmEnv)
    \/ \E j \in Ids : OpenStream(j)
    \/ StreamPoll

SpecStream == InitStream /\ [][NextStream]_vars

\* The interval keeps firing until it is cleared: weak fairness of the poll;
\* every executeJob call goes on: weak fairness of its steps.
SpecStreamLive ==
    /\ InitStream
    /\ [][NextStream]_vars
    /\ WF_vars(StreamPoll)
    /\ \A j \in {1} : /\ WF_vars(ExecStart(j, CalmEnv))
                      /\ WF_vars(ExecIteration(j, CalmEnv))
                      /\ WF_vars(ExecFinally(j, CalmEnv))

(* Retries: one job whose only step may fail, run by the scheduler and        *)
(* retried by a client, up to one retry more than maxRetries.                 *)
InitRetry ==
    /\ maxConcurrent = 1
    /\ jobs \in [{1} -> [priority : {NoPriority}, steps : {OneStep(FALSE)},
                         cacheKeys : {FALSE}]]
    /\ EmptyStore
    /\ EmptyCache
    /\ NoStepRun

NextRetry ==
    \/ Tick(MaxTime)
    \/ \E j \in Ids : SubmitJob(j)
    \/ Dequeue
    \/ \E j \in Ids : RetryJobWithin(j, maxRetries + 1)
    \/ \E j \in Ids : ExecStart(j, CalmEnv)
    \/ \E j \in Ids : ExecIteration(j, CalmEnv)
    \/ \E j \in Ids : ExecFinally(j, CalmEnv)

SpecRetry == InitRetry /\ [][NextRetry]_vars

\* the job ids of the fairness specification: job 1 and the jobs above it
FairJobs == 1..(MaxJobs + 1)

(* Fairness across priorities: job 1 of priority 5 and jobs of priority 10    *)
(* that keep arriving, one running at a time; the scheduler keeps polling     *)
(* and every executeJob call runs to its end.                                 *)
InitFair ==
    /\ maxConcurrent = 1
    /\ jobs = [j \in FairJobs |-> [priority |-> IF j = 1 THEN 5 ELSE 10,
                                   steps |-> OneStep(FALSE), cacheKeys |-> FALSE]]
    /\ EmptyStore
    /\ EmptyCache
    /\ NoStepRun

NextFair ==
    \/ \E j \in Ids : SubmitJob(j)
    \/ \E j \in Ids : SubmitNext(j)
    \/ Dequeue
    \/ \E j \in Ids : ExecStart(j, CalmEnv)
    \/ \E j \in Ids : ExecIteration(j, CalmEnv)
    \/ \E j \in Ids : ExecFinally(j, CalmEnv)

\* a dequeue() call would change the state: it returns a job, or it is the
\* first call to return null
DequeueEnabled ==
    \/ ret # Ret("dequeue", "null")
    \/ ~AtCapacity(getRunningJobCount) /\ kvQueue # {}

\* The scheduler keeps polling: weak fairness of Dequeue, written with its
\* enabling condition; every executeJob call goes on: weak fairness of its steps.
SpecFair ==
    /\ InitFair
    /\ [][NextFair]_vars
    /\ ([]<>(~DequeueEnabled) \/ []<><<Dequeue>>_vars)
    /\ \A j \in FairJobs : /\ WF_vars(ExecStart(j, CalmEnv))
                           /\ WF_vars(ExecIteration(j, CalmEnv))
                           /\ WF_vars(ExecFinally(j, CalmEnv))

(* Validation: two job objects with any of the required fields missing,      *)
(* handed to enqueue directly or posted to the submit route.                  *)
InitValidate ==
    /\ maxConcurrent = 1
    /\ jobs \in [1..MaxJobs -> [priority : {NoPriority}, steps : {OneStep(FALSE)},
                                cacheKeys : {FALSE}, has : FieldFlags]]
    /\ EmptyStore
    /\ EmptyCache
    /\ NoStepRun

NextValidate ==
    \/ Tick(MaxTime)
    \/ \E j \in Ids : EnqueueAny(j)
    \/ \E j \in Ids : HandleSubmitJob(j)

SpecValidate == InitValidate /\ [][NextValidate]_vars

(* Overlapping worker requests: two jobs that clients submit, and two          *)
(* requests whose dequeue() calls interleave at every await.                  *)
InitRace ==
    /\ maxConcurrent \in 1..MaxConcurrentCfg
    /\ jobs \in [1..MaxJobs -> [priority : {NoPriority, 10}, steps : {OneStep(FALSE)},
                                cacheKeys : {FALSE}]]
    /\ EmptyStore
    /\ EmptyCache
    /\ NoStepRun

NextRace ==
    \/ Tick(MaxTime)
    \/ \E j \in Ids : SubmitJob(j)
    \/ \E c \in Callers : DeqCount(c)
    \/ \E c \in Callers : DeqList(c)
    \/ \E c \in Callers : DeqGet(c)
    \/ \E c \in Callers : DeqDelete(c)
    \/ \E c \in Callers : DeqGetStatus(c)
    \/ \E c \in Callers : DeqUpdate(c)

SpecRace == InitRace /\ [][NextRace]_vars

\* no job is submitted: the queue side of a cache specification
NoJobs ==
    /\ maxConcurrent = 1
    /\ jobs = [j \in {1} |-> [priority |-> NoPriority, steps |-> OneStep(FALSE),
                               cacheKeys |-> TRUE]]
    /\ EmptyStore

(* Cache keys: a workspace whose manifests hold any of the contents, steps    *)
(* that rewrite them, and generateCacheKey called with any manifest list.     *)
InitKey ==
    /\ NoJobs
    /\ files \in [LockPaths -> FileStates]
    /\ dirs = {}
    /\ r2 = {}
    /\ kvCache = {}
    /\ keyCalls = <<>>
    /\ cret = [op |-> "none", key |-> <<>>, val |-> "none", again |-> FALSE]
    /\ NoStepRun

NextKey ==
    \/ \E path \in LockPaths, file \in FileStates : WriteFile(path, file)
    \/ \E lockfiles \in LockfileLists, sandbox \in BOOLEAN : GenerateKey(lockfiles, sandbox)

SpecKey == InitKey /\ [][NextKey]_vars

(* The cache store: an empty bucket, one manifest that steps rewrite, cache   *)
(* directories that steps create and remove, saveCache and restoreCache       *)
(* called with the job's current cache keys.                                  *)
InitCache ==
    /\ NoJobs
    /\ EmptyCache
    /\ NoStepRun

NextCache ==
    \/ Tick(MaxTime)
    \/ \E file \in FileStates : WriteFile(1, file)
    \/ \E existing \in SUBSET CachePaths : SetDirs(existing)
    \/ CallSaveCache
    \/ CallRestoreCache

SpecCache == InitCache /\ [][NextCache]_vars

(* The cache of executeJob runs: runs of a job with cacheKeys that restore,   *)
(* run steps that rewrite the manifests and create or remove cache            *)
(* directories, and save.                                                     *)
InitRunCache ==
    /\ NoJobs
    /\ files \in [LockPaths -> FileStates]
    /\ dirs = {}
    /\ r2 = {}
    /\ kvCache = {}
    /\ keyCalls = <<>>
    /\ cret = [op |-> "none", key |-> <<>>, val |-> "none", again |-> FALSE]
    /\ NoStepRun

NextRunCache ==
    \/ \E lockfiles \in {<<1>>, <<1, 2>>} : JobRestoreCache(lockfiles)
    \/ \E file \in FileStates : Len(keyCalls) = 1 /\ WriteFile(1, file)
    \/ \E existing \in SUBSET CachePaths : Len(keyCalls) = 1 /\ SetDirs(existing)
    \/ JobSaveCache

SpecRunCache == InitRunCache /\ [][NextRunCache]_vars

(* One executeStep call: a step and a job with any of the timeouts, a command *)
(* of any kind, the clock stepped in seconds or run to the timer's deadline.  *)
InitStep ==
    /\ NoJobs
    /\ EmptyCache
    /\ stepRun \in {StepIdle(t, jt, cmd) : t \in StepTimeouts, jt \in JobTimeouts,
                                           cmd \in CommandKinds}

NextStep ==
    \/ SecondPasses
    \/ WaitForTimer
    \/ StepStart
    \/ StepCommandWins
    \/ StepTimerWins
    \/ StepLateCompletion

SpecStep == InitStep /\ [][NextStep]_vars

(* The StepResult of one executeStep call: a command that exits with any     *)
(* execResult, throws or never returns, a step with any of the timeouts.     *)
InitOutput ==
    /\ NoJobs
    /\ EmptyCache
    /\ stepRun \in {StepCall(t, "exit", x) : t \in StepTimeouts, x \in ExecResults}
                   \cup {StepCall(t, cmd, [stdout |-> "", stderr |-> "", exitCode |-> 0]) :
                            t \in StepTimeouts, cmd \in {"exception", "never"}}

NextOutput ==
    \/ SecondPasses
    \/ WaitForTimer
    \/ StepStart
    \/ StepCommandSettles
    \/ StepTimerWins

SpecOutput == InitOutput /\ [][NextOutput]_vars

(* ------------------------------- claims ------------------------------- *)
\* a step in which dequeue was called
DequeueStep == ret'.op = "dequeue" /\ (ret' # ret \/ kvQueue' # kvQueue)

\* a step in which dequeue returned the job of queue entry e
DequeueReturned(e) ==
    /\ DequeueStep
    /\ ret'.val = "job"
    /\ e \in kvQueue
    /\ e \notin kvQueue'

\* the priority a job is scheduled with
ScheduledPriority(j) == PriorityOf(jobs[j])

\* C1: in every reachable state the number of JobStatus records whose status
\* is running is at most maxConcurrent.
C1_RunningBounded ==
    Cardinality({j \in Ids : kvStatus[j].status = "running"}) <= maxConcurrent

\* C2: whenever dequeue returns a job, no pending job has a higher priority
\* than the returned one, so of two pending jobs the one of higher priority is
\* returned first, whatever the order of their enqueue calls.
C2_HigherPriorityFirst ==
    [][\A e \in kvQueue : DequeueReturned(e) =>
          \A x \in kvQueue : ScheduledPriority(x.job) <= ScheduledPriority(e.job)]_vars

\* C2 witness: job 2 was enqueued second, with the higher priority, and has
\* been returned by dequeue while job 1 is still pending.
C2_Witness ==
    /\ ret = Ret("dequeue", "job")
    /\ exec[2].pc = "start"
    /\ enqCount = 2
    /\ ScheduledPriority(1) < ScheduledPriority(2)
    /\ \E e \in kvQueue : e.job = 1 /\ e.seq = 1

\* C3: whenever dequeue returns a job, every pending job of the same priority
\* was enqueued after it (stable FIFO), also when two jobs were enqueued at
\* the same clock value.
C3_StableFifo ==
    [][\A e \in kvQueue : DequeueReturned(e) =>
          \A x \in kvQueue :
             ScheduledPriority(x.job) = ScheduledPriority(e.job) => e.seq <= x.seq]_vars

\* the scenario of C4: maxConcurrent 1, A = job 1 (priority 5, enqueued at
\* clock 1), B = job 2 (priority 8, clock 2), C = job 3 (priority 5, clock 3)
ScenarioConfig ==
    /\ maxConcurrent = 1
    /\ DOMAIN jobs = {1, 2, 3}
    /\ jobs[1].priority = 5 /\ jobs[2].priority = 8 /\ jobs[3].priority = 5
KeyA == <<53, 58, 49, 58, 97>>  \* "5:1:a"
KeyB == <<56, 58, 50, 58, 98>>  \* "8:2:b"
KeyC == <<53, 58, 51, 58, 99>>  \* "5:3:c"
PendingNames == {e.name : e \in kvQueue}
Dispatched(name) == \E e \in kvQueue : e.name = name /\ DequeueReturned(e)
NoneRunning == \A j \in Ids : kvStatus[j].status # "running"

\* C4: a dequeue call made while the number of running statuses is at least
\* maxConcurrent returns no job, removes no queue entry, changes no JobStatus
\* and starts no job; in the scenario the dequeue calls yield B, then no job
\* while B is running, then A, then C.
C4_Backpressure ==
    [][DequeueStep =>
         /\ Cardinality({j \in Ids : kvStatus[j].status = "running"}) >= maxConcurrent =>
               /\ ret'.val = "null"
               /\ UNCHANGED <<kvQueue, kvStatus, exec>>
         /\ ScenarioConfig =>
               /\ PendingNames = {KeyA, KeyB, KeyC} => Dispatched(KeyB)
               /\ PendingNames = {KeyA, KeyC} /\ kvStatus[2].status = "running" =>
                     ret'.val = "null" /\ UNCHANGED <<kvQueue, kvStatus, exec>>
               /\ PendingNames = {KeyA, KeyC} /\ NoneRunning => Dispatched(KeyA)
               /\ PendingNames = {KeyC} /\ NoneRunning => Dispatched(KeyC)]_vars

\* C4 witness: in the scenario B was returned first and is running, and the
\* dequeue call after it returned no job, A and C still pending.
C4_Witness ==
    /\ ScenarioConfig
    /\ PendingNames = {KeyA, KeyC}
    /\ kvStatus[2].status = "running"
    /\ kvStatus[1].status = "queued" /\ kvStatus[3].status = "queued"
    /\ ret = Ret("dequeue", "null")

\* the position of a status on queued -> running -> terminal
StatusRank(status) ==
    CASE status = "absent" -> 0
      [] status = "queued" -> 1
      [] status = "running" -> 2
      [] OTHER -> 3

\* C5: the stored status of a job only moves forward along
\* queued -> running -> {success, failure, timeout, cancelled}, and a stored
\* terminal status never changes again.
C5_ForwardOnly ==
    [][\A j \in Ids :
          /\ StatusRank(kvStatus[j].status) <= StatusRank(kvStatus'[j].status)
          /\ kvStatus[j].status \in TerminalStatuses =>
                kvStatus'[j].status = kvStatus[j].status]_vars

\* the 1-based indices of the executed steps that ended failure with
\* continueOnError false
StoppingSteps(j) ==
    {k \in 1..Len(exec[j].log) :
        exec[j].log[k].status = "failure" /\ ~jobs[j].steps[k].continueOnError}

C7_StepContinue ==
    \A j \in Ids :
       (exec[j].pc = "done" /\ exec[j].thrown = "none") =>
          /\ \A k \in 1..Len(exec[j].log) :
                (exec[j].log[k].status = "failure" /\ jobs[j].steps[k].continueOnError
                    /\ k < Len(jobs[j].steps)) => Len(exec[j].log) > k
          /\ (\E k \in 1..Len(exec[j].status.steps) :
                 exec[j].status.steps[k].status = "failure") =>
                exec[j].status.status = "failure"

C9_TerminalAtReturn ==
    \A j \in Ids :
       exec[j].pc = "done" => exec[j].status.status \in TerminalStatuses

\* an exception was raised by some call of steps 2-7 of this executeJob call,
\* the calls inside restoreCache, saveCache and executeStep included
RaisedInSteps2To7(proc) ==
    \/ proc.thrown \in {"setup", "persist", "snapshot"}
    \/ proc.cache = "error"
    \/ proc.save = "error"
    \/ \E k \in 1..Len(proc.log) : proc.log[k].output \in {"error.message", "Step timeout"}

C11_DurationConsistent ==
    \A j \in Ids :
       (kvStatus[j].startedAt # Undef /\ kvStatus[j].finishedAt # Undef) =>
          kvStatus[j].duration = kvStatus[j].finishedAt - kvStatus[j].startedAt

\* two recorded generateCacheKey calls got the same arguments and found the
\* same content under every manifest path they were given
SameKeyInputs(a, b) ==
    /\ a.lockfiles = b.lockfiles
    /\ a.sandbox = b.sandbox
    /\ \A k \in 1..Len(a.lockfiles) : a.fs[a.lockfiles[k]] = b.fs[b.lockfiles[k]]

\* every manifest a recorded call was given existed when it was called
ManifestsExist(a) == \A k \in 1..Len(a.lockfiles) : a.fs[a.lockfiles[k]].exists

C13_ContentChangeChangesKey ==
    (/\ Len(keyCalls) = 2
     /\ keyCalls[1].lockfiles = keyCalls[2].lockfiles
     /\ keyCalls[1].sandbox /\ keyCalls[2].sandbox
     /\ ManifestsExist(keyCalls[1]) /\ ManifestsExist(keyCalls[2])
     /\ \E k \in 1..Len(keyCalls[1].lockfiles) :
           keyCalls[1].fs[keyCalls[1].lockfiles[k]] # keyCalls[2].fs[keyCalls[1].lockfiles[k]])
    => keyCalls[1].key # keyCalls[2].key

\* C14: for the same manifest contents, a call with the same manifest paths
\* in another order returns a different key.
C14_ReorderChangesKey ==
    (/\ Len(keyCalls) = 2
     /\ keyCalls[1].lockfiles = <<1, 2>> /\ keyCalls[2].lockfiles = <<2, 1>>
     /\ keyCalls[1].sandbox /\ keyCalls[2].sandbox
     /\ ManifestsExist(keyCalls[1])
     /\ keyCalls[1].fs = keyCalls[2].fs)
    => keyCalls[1].key # keyCalls[2].key

\* C15: a restoreCache call for a key that has no bundle in the bucket
\* returns false and leaves the sandbox, the bucket and the metadata as they
\* were, the first time and every time after it.
C15_RestoreMiss ==
    [][(/\ cret' # cret
        /\ cret'.op = "restoreCache"
        /\ ~ \E o \in r2 : o.cacheKey = cret'.key)
       => /\ cret'.val = "false"
          /\ UNCHANGED <<files, dirs, r2, kvCache>>]_vars

\* C15 witness: restoreCache was called twice in a row for a key without a
\* bundle, while another key has one, and returned false again.
C15_Witness ==
    /\ cret.op = "restoreCache"
    /\ cret.again
    /\ cret.val = "false"
    /\ r2 # {}
    /\ ~ \E o \in r2 : o.cacheKey = cret.key

\* C16: when the timer of the race fires before the command completes, the
\* StepResult ends failure with the timeout message as output, a nonzero
\* exitCode, finishedAt and duration stamped, no earlier than step.timeout
\* seconds (300 when unset) after the start; a command that completes
\* afterwards does not change the StepResult.
C16_TimerWins ==
    [][/\ (stepRun.pc = "racing" /\ stepRun'.pc = "returned" /\ ~stepRun'.settled) =>
             /\ stepRun'.result.status = "failure"
             /\ stepRun'.result.output = "Step timeout"
             /\ stepRun'.result.exitCode # 0
             /\ stepRun'.result.finishedAt = now
             /\ stepRun'.result.duration = now - stepRun.result.startedAt
             /\ stepRun'.result.duration >=
                   (IF stepRun.timeout = NoTimeout THEN 300 ELSE stepRun.timeout) * 1000
       /\ (stepRun.pc = "returned" /\ stepRun.by = "timer") =>
             stepRun'.result = stepRun.result]_vars

\* C16 witness: the step with timeout 2 returned on its timer, and its
\* command, exiting with code 0, completed after that.
C16_Witness ==
    /\ stepRun.pc = "returned"
    /\ stepRun.by = "timer"
    /\ stepRun.timeout = 2
    /\ stepRun.cmd = "exit0"
    /\ stepRun.settled
    /\ stepRun.result.status = "failure"
    /\ stepRun.result.duration >= 2000

\* C17: for a job with timeout 1 second and a step whose command never
\* returns, executeStep returns a StepResult that is failure with the timeout
\* message and a nonzero exitCode about one second after the step started.
C17_JobTimeoutBoundsStep ==
    (stepRun.pc = "returned" /\ stepRun.jobTimeout = 1 /\ stepRun.cmd = "never") =>
        /\ stepRun.result.status = "failure"
        /\ stepRun.result.output = "Step timeout"
        /\ stepRun.result.exitCode # 0
        /\ stepRun.result.duration < 2 * 1000

\* C18: when cancelJob returns true for a job whose status was queued, the
\* job has no queue entry left, and dequeue never returns a job whose stored
\* status is cancelled, that is a cancelled job that was not enqueued again.
C18_CancelledNeverDispatched ==
    [][/\ \A j \in Ids :
             (kvStatus[j].status = "queued" /\ kvStatus'[j].status = "cancelled"
                 /\ ret'.op = "cancelJob" /\ ret'.val = "true") =>
                \A e \in kvQueue' : e.job # j
       /\ \A e \in kvQueue :
             DequeueReturned(e) => kvStatus[e.job].status # "cancelled"]_vars

\* a step in which cancelJob(j) was called
CancelStepOf(j) ==
    /\ ret'.op = "cancelJob" /\ ret'.id = j
    /\ UNCHANGED <<exec, now, enqCount>>
    /\ (ret' # ret \/ kvStatus' # kvStatus \/ kvQueue' # kvQueue)

\* C19: cancelJob(id) returns false and changes no stored state when id has
\* no JobStatus; otherwise it returns true and the stored status is cancelled
\* with finishedAt stamped, and duration stamped when startedAt is set.
C19_Cancel ==
    [][\A j \in Ids : CancelStepOf(j) =>
          IF kvStatus[j].status = "absent"
          THEN /\ ret'.val = "false"
               /\ UNCHANGED <<kvQueue, kvStatus, kvJob>>
          ELSE /\ ret'.val = "true"
               /\ kvStatus'[j].status = "cancelled"
               /\ kvStatus'[j].finishedAt = now
               /\ kvStatus[j].startedAt # Undef =>
                     kvStatus'[j].duration = now - kvStatus[j].startedAt
               /\ \A x \in Ids \ {j} : kvStatus'[x] = kvStatus[x]]_vars

\* C19 witness: cancelJob returned true for a job that had been running for
\* one clock tick, while the other job has no JobStatus.
C19_Witness ==
    /\ ret = RetFor("cancelJob", "true", 1)
    /\ kvStatus[1].status = "cancelled"
    /\ kvStatus[1].startedAt = 1
    /\ kvStatus[1].finishedAt = 2
    /\ kvStatus[1].duration = 1
    /\ kvStatus[2].status = "absent"

\* a step in which retryJob(j) was called
RetryStepOf(j) ==
    /\ ret'.op = "retryJob" /\ ret'.id = j
    /\ UNCHANGED <<exec, now>>
    /\ (ret' # ret \/ kvStatus' # kvStatus \/ kvQueue' # kvQueue)

\* C20: retryJob(id) returns true exactly when the status is failure and the
\* job config is stored, and then the job has one new queue entry, status
\* queued and every StepResult pending; otherwise it returns false and
\* changes no stored state.
C20_Retry ==
    [][\A j \in Ids : RetryStepOf(j) =>
          IF kvStatus[j].status = "failure" /\ j \in kvJob
          THEN /\ ret'.val = "true"
               /\ kvQueue \subseteq kvQueue'
               /\ Cardinality(kvQueue') = Cardinality(kvQueue) + 1
               /\ \A e \in kvQueue' \ kvQueue : e.job = j
               /\ kvStatus'[j].status = "queued"
               /\ Len(kvStatus'[j].steps) = Len(jobs[j].steps)
               /\ \A k \in 1..Len(kvStatus'[j].steps) :
                     kvStatus'[j].steps[k].status = "pending"
          ELSE /\ ret'.val = "false"
               /\ UNCHANGED <<kvQueue, kvStatus, kvJob>>]_vars

\* C20 witness: the job failed in its second step, and retryJob returned true
\* and made it pending again.
C20_Witness ==
    /\ ret = RetFor("retryJob", "true", 1)
    /\ exec[1].pc = "done"
    /\ exec[1].status.status = "failure"
    /\ Len(exec[1].log) = 2
    /\ kvStatus[1].status = "queued"
    /\ Cardinality(kvQueue) = 1

\* a step in which pruneCompletedJobs was called
PruneStep ==
    /\ ret'.op = "pruneCompletedJobs"
    /\ UNCHANGED <<exec, now, enqCount>>
    /\ (ret' # ret \/ kvStatus' # kvStatus)

\* the records that are success, failure or cancelled and finished more than
\* maxAge ago
OldTerminal(maxAge) ==
    {j \in Ids : /\ kvStatus[j].status \in {"success", "failure", "cancelled"}
                 /\ kvStatus[j].finishedAt # Undef
                 /\ now - kvStatus[j].finishedAt > maxAge}

\* C21: pruneCompletedJobs(maxAge) deletes the JobStatus and the stored config
\* of exactly the records that are success, failure or cancelled and finished
\* more than maxAge ago, deletes no queued, running or timeout record, leaves
\* the queue entries unchanged and returns the number of records deleted.
C21_Prune ==
    [][PruneStep =>
         LET old == OldTerminal(ret'.maxAge) IN
         /\ \A j \in Ids : kvStatus'[j] = IF j \in old THEN AbsentStatus ELSE kvStatus[j]
         /\ kvJob' = kvJob \ old
         /\ kvQueue' = kvQueue
         /\ ret'.deleted = Cardinality(old)]_vars

\* C21 witness: at clock 2, pruneCompletedJobs(0) deleted job 1 and returned
\* 1; job 2, which finished at clock 2, is kept with its config.
C21_Witness ==
    /\ ret = PruneRet(0, 1)
    /\ now = 2
    /\ kvStatus[1].status = "absent" /\ 1 \notin kvJob
    /\ kvStatus[2].status \in {"success", "failure", "cancelled"}
    /\ kvStatus[2].finishedAt = 2
    /\ 2 \in kvJob

\* two overlapping dequeue() calls have both returned the job of the same
\* queue entry
DoubleDispatch(c, d) ==
    /\ c # d
    /\ deq[c].pc = "returned" /\ deq[c].ret = "job"
    /\ deq[d].pc = "returned" /\ deq[d].ret = "job"
    /\ deq[c].first = deq[d].first
    /\ deq[c].jobData = deq[d].jobData

\* C22: two overlapping dequeue() calls return the same job only when both
\* selected the same head entry and each read it before the other deleted it;
\* that interleaving is reachable (the witness).
C22_DoubleDispatchOnlyBeforeDelete ==
    \A c \in Callers, d \in Callers :
       DoubleDispatch(c, d) => ~deq[c].afterDelete /\ ~deq[d].afterDelete

\* C22 witness: both requests selected the entry of job 1 and both returned
\* job 1, while maxConcurrent is 1.
C22_Witness ==
    /\ DoubleDispatch(1, 2)
    /\ deq[1].jobData = 1
    /\ maxConcurrent = 1
    /\ kvStatus[1].status = "running"

\* C23: when a setup command threw or exited with a nonzero code and
\* executeJob has returned, the job status is failure with the captured
\* message, no step was executed and every StepResult is pending.
C23_SetupFailureFailsJob ==
    \A j \in Ids :
       (exec[j].pc = "done" /\ exec[j].setup \in {"throw", "exitNonzero"}) =>
          /\ exec[j].status.status = "failure"
          /\ exec[j].status.error = ExceptionError("setup")
          /\ exec[j].log = <<>>
          /\ \A k \in 1..Len(exec[j].status.steps) :
                exec[j].status.steps[k].status = "pending"

\* C24: when the cache restore fails (the bundle is not found, or key
\* generation or the restore throws), executeJob goes on exactly as it does
\* on a cache miss: the same status, the steps still to run, no exception
\* recorded for the restore.
C24_RestoreFailureIsMiss ==
    [][\A j \in Ids :
          (exec[j].pc = "start" /\ exec'[j].pc # "start"
               /\ exec'[j].cache \in {"miss", "error"}) =>
             /\ exec'[j].thrown # "restore"
             /\ \E save \in FaultyEnv.save, snapshot \in FaultyEnv.snapshot :
                   [exec'[j] EXCEPT !.cache = "miss"] =
                      Started(j, exec'[j].setup, "miss", save, snapshot)]_vars

\* C24 witness: the restore threw, the three steps ran, and executeJob has
\* returned success.
C24_Witness ==
    /\ exec[1].pc = "done"
    /\ exec[1].cache = "error"
    /\ Len(exec[1].log) = 3
    /\ exec[1].status.status = "success"

\* C25: the cache save is attempted only for a job with cacheKeys whose
\* StepResults made the status success, and when the save fails no exception
\* of it reaches the catch block: with no other collaborator throwing, the
\* status handed to the finally block and returned is success.
C25_SaveBestEffort ==
    \A j \in Ids :
       exec[j].pc \in {"finally", "done", "threw"} =>
          /\ exec[j].save # "none" =>
                /\ jobs[j].cacheKeys
                /\ \A k \in 1..Len(exec[j].status.steps) :
                      exec[j].status.steps[k].status \in {"success", "skipped"}
          /\ exec[j].save = "error" =>
                /\ exec[j].thrown # "save"
                /\ exec[j].status.error # ExceptionError("save")
                /\ exec[j].thrown = "none" => exec[j].status.status = "success"

\* C25 witness: every step succeeded, the save failed, and executeJob has
\* returned success.
C25_Witness ==
    /\ exec[1].pc = "done"
    /\ exec[1].save = "error"
    /\ Len(exec[1].log) = 2
    /\ exec[1].status.status = "success"
    /\ kvStatus[1].status = "success"

\* C26: when every step succeeded and createSnapshot failed, the status
\* executeJob returns is success.
C26_SnapshotBestEffort ==
    \A j \in Ids :
       (exec[j].pc = "done" /\ exec[j].thrown = "snapshot") =>
          exec[j].status.status = "success"

\* C27: a failed job is enqueued again by retryJob at most maxRetries times.
C27_RetriesBounded == retryCount <= maxRetries

\* the clock value in the name of a queue entry: when it was enqueued
EnqueuedAt(e) == parseInt(Split(e.name)[2])

\* C28: when a job was enqueued twice while it was pending, dequeue returns
\* it at most once: after two enqueue calls, dequeue does not return an entry
\* of a job that was dispatched while that entry was already pending.
C28_DuplicateEnqueueDispatchedOnce ==
    [][\A e \in kvQueue :
          (DequeueReturned(e) /\ enqCount = 2 /\ retryCount = 0) =>
             ~(/\ kvStatus[e.job].startedAt # Undef
               /\ EnqueuedAt(e) < kvStatus[e.job].startedAt)]_vars

\* C29: with a scheduler that keeps polling and running jobs that finish,
\* every queued job is eventually returned by dequeue, also while jobs of
\* higher priority keep being enqueued.
C29_EveryQueuedJobDispatched ==
    \A j \in FairJobs :
       (kvStatus[j].status = "queued") ~> (kvStatus[j].status = "running")

\* C30: enqueue(job) for a job that lacks id, repo, commit or steps fails
\* with a ValidationError and writes no queue entry and no JobStatus.
C30_EnqueueValidates ==
    [][\A j \in Ids :
          (ret'.op = "enqueue" /\ ret'.id = j /\ enqCount' # enqCount
               /\ Invalid(jobs[j])) =>
             /\ ret'.val = "ValidationError"
             /\ UNCHANGED <<kvQueue, kvStatus>>]_vars

\* C31: when the command of a step completes before the timer, exit code 0
\* gives the StepResult success and a nonzero exit code gives failure with
\* that code, the output being stdout, or stderr when stdout is empty; an
\* exception of the dispatch gives failure with the exception text as output
\* and exitCode 1; in all cases finishedAt is stamped and duration is
\* finishedAt - startedAt.
C31_CommandCompletes ==
    [][(stepRun.pc = "racing" /\ stepRun'.pc = "returned" /\ stepRun'.by = "command") =>
         LET r == stepRun'.result
             x == stepRun.execResult
         IN  /\ stepRun.cmd = "exit" =>
                   /\ r.status = (IF x.exitCode = 0 THEN "success" ELSE "failure")
                   /\ r.exitCode = x.exitCode
                   /\ r.output = (IF x.stdout = "" THEN x.stderr ELSE x.stdout)
             /\ stepRun.cmd = "exception" =>
                   /\ r.status = "failure"
                   /\ r.output = "error.message"
                   /\ r.exitCode = 1
             /\ r.finishedAt = now
             /\ r.duration = r.finishedAt - stepRun.result.startedAt]_vars

\* C31 witness: a command that wrote nothing to stdout exited with code 2 two
\* seconds after the step started, before the default timer; the StepResult
\* is failure with stderr as output.
C31_Witness ==
    /\ stepRun.pc = "returned"
    /\ stepRun.by = "command"
    /\ stepRun.cmd = "exit"
    /\ stepRun.timeout = NoTimeout
    /\ stepRun.execResult = [stdout |-> "", stderr |-> "stderr", exitCode |-> 2]
    /\ stepRun.result.status = "failure"
    /\ stepRun.result.exitCode = 2
    /\ stepRun.result.output = "stderr"
    /\ stepRun.result.duration = 2 * MsPerSecond

\* a step of the executeJob call of job j that writes the stored JobStatus
ExecWrites(j) ==
    /\ exec[j].pc \in {"loop", "finally"}
    /\ exec'[j] # exec[j]
    /\ kvStatus'[j] = exec'[j].status \/ exec'[j].pc \in {"loop", "finally"}

\* C32: at every write of an execution of a job, the StepResults of the
\* stored JobStatus that are not pending form a prefix of the step list, only
\* the slots of the steps this execution has run are filled (the steps after
\* a stopping failure stay pending, none is skipped), and currentStep does
\* not decrease and stays below the number of steps.
C32_SlotsFilledInOrder ==
    [][\A j \in Ids : ExecWrites(j) =>
          LET stored == kvStatus'[j]
              executed == Len(exec'[j].log)
          IN  /\ \A k \in 1..Len(stored.steps) :
                    stored.steps[k].status # "pending" =>
                       \A m \in 1..k : stored.steps[m].status # "pending"
              /\ \A k \in 1..Len(stored.steps) :
                    /\ stored.steps[k].status # "skipped"
                    /\ k > executed => stored.steps[k].status = "pending"
              /\ Len(stored.steps) = Len(jobs[j].steps)
              /\ stored.currentStep >= kvStatus[j].currentStep
              /\ stored.currentStep < Len(jobs[j].steps)]_vars

\* C33: within one job at most one step's command is executing in the sandbox
\* at any time: when executeJob dispatches the command of a step, no command
\* of an earlier step of the job is still executing, whatever the outcome of
\* that step and its continueOnError setting.
C33_OneCommandAtATime ==
    [][\A j \in Ids :
          (exec[j].pc = "loop" /\ Len(exec'[j].log) = Len(exec[j].log) + 1) =>
             ~ \E c \in commands : c[1] = j]_vars

\* the 0-based indices of the executed steps whose output is not empty, in
\* step order
RECURSIVE OutputsOf(_, _)
OutputsOf(log, i) ==
    IF i >= Len(log) THEN <<>>
    ELSE (IF log[i + 1].output \notin {"none", ""} THEN <<i>> ELSE <<>>) \o OutputsOf(log, i + 1)

\* C34: when a log stream that was opened before the first step of the job
\* started has closed after the job was executed to its end, it has emitted
\* the output of every executed step with non-empty output exactly once, in
\* step order.
C34_StreamEmitsEveryOutput ==
    (/\ stream.state = "closed"
     /\ stream.early
     /\ exec[stream.job].pc = "done")
    => stream.emitted = OutputsOf(exec[stream.job].log, 0)

\* C35 (part 1): a poll that observes a terminal status or no status record
\* closes the stream, and a closed stream emits nothing more.
C35_ClosesAtTerminalPoll ==
    [][/\ (stream.state = "open" /\ stream' # stream
             /\ kvStatus[stream.job].status \in TerminalStatuses \cup {"absent"}) =>
             stream'.state = "closed"
       /\ stream.state = "closed" => stream' = stream]_vars

SaveStep == cret'.op = "saveCache" /\ (cret' # cret \/ r2' # r2 \/ kvCache' # kvCache)

\* C36: saveCache(key, paths, sandbox) fails exactly when none of the
\* candidate paths exists in the sandbox, and then writes nothing to the
\* bucket and nothing to the metadata; otherwise it archives exactly the
\* existing candidate paths and writes one bundle and one metadata record
\* for key, leaving the bundles and the records of other keys as they were.
C36_SaveCache ==
    [][SaveStep =>
         LET key == cret'.key
             existing == cret'.paths \cap dirs
         IN  IF existing = {}
             THEN /\ cret'.val = "throw"
                  /\ UNCHANGED <<r2, kvCache>>
             ELSE /\ cret'.val = "ok"
                  /\ Cardinality({o \in r2' : o.cacheKey = key}) = 1
                  /\ \A o \in r2' : o.cacheKey = key =>
                        o.archived = existing /\ o.name = ArchiveKey(key)
                  /\ {o \in r2' : o.cacheKey # key} = {o \in r2 : o.cacheKey # key}
                  /\ Cardinality({m \in kvCache' : m.name = key}) = 1
                  /\ {m \in kvCache' : m.name # key} = {m \in kvCache : m.name # key}]_vars

\* C36 witness: saveCache was called with both candidate paths while only
\* the first exists; the bundle holds the first path only, and there is one
\* metadata record.
C36_Witness ==
    /\ cret.op = "saveCache"
    /\ cret.val = "ok"
    /\ cret.paths = CachePaths
    /\ dirs = {1}
    /\ \E o \in r2 : o.cacheKey = cret.key /\ o.archived = {1}
    /\ Cardinality(kvCache) = 1

\* C37: with one scheduler calling dequeue serially, a dequeue call that
\* returns a job removes exactly the queue entry it returns, so that no entry
\* of that name is left and the entry cannot be returned again (an enqueue
\* call only adds an entry that was never there before), and it leaves the
\* JobStatus of the returned job running with startedAt stamped.
C37_DequeueRemovesAndMarks ==
    [][/\ (DequeueStep /\ ret'.val = "job") =>
             \E e \in kvQueue :
                /\ kvQueue' = kvQueue \ {e}
                /\ \A x \in kvQueue' : x.name # e.name
                /\ exec'[e.job] = StartProc
                /\ kvStatus'[e.job].status = "running"
                /\ kvStatus'[e.job].startedAt = now
                /\ \A j \in Ids \ {e.job} : kvStatus'[j] = kvStatus[j]
       /\ \A e \in kvQueue' \ kvQueue : e.seq = enqCount' /\ enqCount' = enqCount + 1]_vars

\* C38: cancelJob(id) on a queued job deletes only a queue entry whose job id
\* is exactly id, never the entry of another job (also when the id of that
\* job ends with ':' followed by id), and it leaves the pending entries and
\* the statuses of all other jobs unchanged.
C38_CancelDeletesOwnEntryOnly ==
    [][\A j \in Ids :
          (CancelStepOf(j) /\ kvStatus[j].status = "queued") =>
             /\ \A e \in kvQueue \ kvQueue' : e.job = j
             /\ kvQueue' \subseteq kvQueue
             /\ \A x \in Ids \ {j} : kvStatus'[x] = kvStatus[x]]_vars

\* C39: within one executeJob run, the cache key under which the cache is
\* saved after the steps is the cache key that was used for the restore
\* attempt before the steps, whatever the steps did to the workspace.
C39_SaveKeyIsRestoreKey ==
    (Len(keyCalls) = 2 /\ cret.op = "saveCache" /\ cret.val = "ok") =>
        /\ cret.key = keyCalls[2].key
        /\ keyCalls[2].key = keyCalls[1].key

====
